---- MODULE Spec2Model ----
(***************************************************************************)
(* A model of matador's high-throughput driver.                            *)
(*                                                                         *)
(*   Part A  BatchRun (src/matador/compute/batch.py): spawn() and the      *)
(*           worker processes running perform_new_calculations, with the   *)
(*           lock files, the ledgers and the error queue they share.       *)
(*   Part B  FullRelaxer (src/matador/compute.py): relax() and scf() with  *)
(*           the files of one seed.                                        *)
(*   Part C  Refiner (src/matador/refine.py) and its collection.           *)
(*   Part D  Spatula (src/src/scrapers/spatula.py), the importer.          *)
(*   Part E  reset_job_folder (src/matador/compute/batch.py).              *)
(*   Part F  QueryConvexHull (src/matador/hull.py): binary hulls.          *)
(*   Part G  k-point spacings (cell_utils.py, spatula.py).                 *)
(*   Part H  BatchRun.__init__ (src/matador/compute/batch.py).             *)
(***************************************************************************)
EXTENDS Integers, Sequences, FiniteSets, TLC

(***************************************************************************)
(* Bounds of the model.                                                    *)
(***************************************************************************)
MaxProcesses == 2      \* worker processes of one spawn()
NumSeeds == 3          \* res files in the folder
MaxVisits == 4         \* nprocesses * number of res files: the loop
                       \* iterations of all workers together
MaxLimit == 2          \* the largest job limit configured

\* 'limit': None in prop_defaults: no job limit.
NoLimit == -1

VARIABLES
    \* ---- BatchRun configuration (fixed by __init__)
    nprocesses,        \* self.nprocesses
    limit,             \* self.limit (NoLimit for None)
    ignore_jobs_file,  \* self.args['ignore_jobs_file']
    join,              \* spawn(join=...)
    res_files,         \* self.file_lists['res'], as seed numbers
    \* ---- the working directory
    lock_files,        \* seeds whose <res>.lock exists
    jobs_txt,          \* jobs.txt, a sequence of lines
    memory_txt,        \* memory_exceeded.txt: lines per seed
    completed_txt,     \* finished_cleanly.txt: lines per seed
    failures_txt,      \* failures.txt: lines per seed
    \* ---- worker processes
    pc,                \* position of each worker in perform_new_calculations
    todo,              \* candidates of res_list not yet iterated
    res,               \* the loop variable res
    locked,            \* the local locked
    job_count,         \* the local job_count
    outcome,           \* what the last FullRelaxer(...) came to
    \* ---- the parent in spawn()
    error_queue,       \* mp.Queue, a sequence of results
    spawn_pc,          \* position of the parent
    n_collected,       \* iterations done of the collecting loop
    errors,            \* the list errors
    raised,            \* the kind of the error leaving spawn(), or "none"
    joined,            \* workers on which join(timeout=10) was called
    \* ---- history (not read by the program)
    run_count,         \* FullRelaxer invocations per seed
    dup_creates,       \* per seed: opens of a lock file that already existed
    lock_removals,     \* per seed: removals of the lock file
    results_put,       \* per worker: results put on error_queue
    reported,          \* per worker: the count it reported, or NoLimit
    hit_limit,         \* per worker: it returned at the job-limit check
    work_after_limit,  \* per worker: locked/appended with job_count = limit
    \* ---- FullRelaxer (Part B)
    rx,
    \* ---- Refiner and its collection (Part C)
    rf,
    \* ---- Spatula, the importer, and its database (Part D)
    sp,
    \* ---- what reset_job_folder adds to the working directory (Part E)
    fold,
    \* ---- QueryConvexHull (Part F)
    hl

batch_vars == <<nprocesses, limit, ignore_jobs_file, join, res_files,
                lock_files, jobs_txt, memory_txt, completed_txt, failures_txt,
                pc, todo, res, locked, job_count, outcome,
                error_queue, spawn_pc, n_collected, errors, raised, joined,
                run_count, dup_creates, lock_removals, results_put, reported,
                hit_limit, work_after_limit>>

\* the components other than BatchRun and FullRelaxer
ext_vars == <<rf, sp, fold, hl>>

\* all but the variable of one component
not_rf == <<batch_vars, rx, sp, fold, hl>>
not_sp == <<batch_vars, rx, rf, fold, hl>>
not_hl == <<batch_vars, rx, rf, sp, fold>>

vars == <<batch_vars, rx, ext_vars>>

(***************************************************************************)
(* File names.  A seed n has a name of letters; some names end with the    *)
(* whole name of another seed ("ab" ends with "b"), as file names may.     *)
(***************************************************************************)
Letters == <<"a", "b", "c", "d", "e", "f", "g", "h", "i", "j">>

SeedName(n) == IF n % 3 = 0 THEN <<Letters[n - 2], Letters[n - 1]>>
               ELSE <<Letters[n]>>

\* the entry of file_lists['res'] for seed n: "<name>.res"
ResFile(n) == SeedName(n) \o <<".res">>

\* the line written to a ledger: res + '\n'
Line(n) == ResFile(n) \o <<"\n">>

\* Python's  sub in text  on strings
Contains(sub, text) ==
    \E i \in 1..(Len(text) - Len(sub) + 1) :
        SubSeq(text, i, i + Len(sub) - 1) = sub

Procs == 0..(nprocesses - 1)
AllProcs == 0..(MaxProcesses - 1)

ErrorKinds == {"ValueError", "RuntimeError"}

\* what constructing (and so running) a FullRelaxer can come to, as
\* perform_new_calculations sees it
Outcomes == {"success", "failure", "no_memory", "fatal_exit"} \cup ErrorKinds

(***************************************************************************)
(* _check_jobs_file                                                        *)
(***************************************************************************)
CheckJobsFile(n, flines) ==
    \E i \in 1..Len(flines) : Contains(ResFile(n), flines[i])

(***************************************************************************)
(* Part A.  perform_new_calculations, one action per step of the loop      *)
(* body that reads or writes something the workers share.                  *)
(***************************************************************************)
CountResult(w, n) == [proc |-> w, is_error |-> FALSE, count |-> n, kind |-> "none"]
ErrorResult(w, k) == [proc |-> w, is_error |-> TRUE, count |-> 0, kind |-> k]

\* error_queue.put(result) by worker w
Put(w, result) ==
    /\ error_queue' = Append(error_queue, result)
    /\ results_put' = [results_put EXCEPT ![w] = @ + 1]
    /\ reported' = IF result.is_error THEN reported
                   ELSE [reported EXCEPT ![w] = result.count]

NoPut == UNCHANGED <<error_queue, results_put, reported>>

config_vars == <<nprocesses, limit, ignore_jobs_file, join, res_files>>
parent_vars == <<spawn_pc, n_collected, errors, raised, joined>>
ledger_vars == <<memory_txt, completed_txt, failures_txt>>

\* for res in res_list: locked = os.path.isfile(res.lock); and, once the
\* list is exhausted, the closing error_queue.put((proc_id, job_count))
NextCandidate(w) ==
    /\ pc[w] = "for_res"
    /\ IF todo[w] = {}
       THEN /\ Put(w, CountResult(w, job_count[w]))
            /\ pc' = [pc EXCEPT ![w] = "exiting"]
            /\ UNCHANGED <<todo, res, locked>>
       ELSE /\ \E n \in todo[w] :
                 /\ res' = [res EXCEPT ![w] = n]
                 /\ todo' = [todo EXCEPT ![w] = @ \ {n}]
                 /\ locked' = [locked EXCEPT ![w] = n \in lock_files]
            /\ pc' = [pc EXCEPT ![w] = "check_jobs"]
            /\ NoPut
    /\ UNCHANGED <<config_vars, parent_vars, ledger_vars, lock_files, jobs_txt,
                   job_count, outcome, run_count, dup_creates, lock_removals,
                   hit_limit, work_after_limit, rx, ext_vars>>

\* listed = self._check_jobs_file(res) unless ignore_jobs_file;
\* running = any([listed, locked])
Running(w) ==
    LET listed == IF ignore_jobs_file THEN FALSE
                  ELSE CheckJobsFile(res[w], jobs_txt)
    IN  listed \/ locked[w]

CheckListed(w) ==
    /\ pc[w] = "check_jobs"
    /\ pc' = [pc EXCEPT ![w] = IF Running(w) THEN "for_res" ELSE "check_limit"]
    /\ locked' = [locked EXCEPT ![w] = FALSE]      \* not read again
    /\ NoPut
    /\ UNCHANGED <<config_vars, parent_vars, ledger_vars, lock_files, jobs_txt,
                   todo, res, job_count, outcome, run_count,
                   dup_creates, lock_removals, hit_limit, work_after_limit, rx, ext_vars>>

\* a variant: the limit is only noticed once it has been passed
LimitReached_Late(w) == job_count[w] > limit

\* if job_count == self.limit
LimitReached(w) == job_count[w] = limit

\* a variant: the else branch lacks its continue and falls through to the
\* jobs file
LockBranch_NoContinue(w) ==
    IF res[w] \in lock_files THEN "write_jobs" ELSE "write_lock"

\* the branch taken at  if not os.path.isfile(res.lock): ... else: continue
LockBranch(w) == IF res[w] \in lock_files THEN "for_res" ELSE "write_lock"

\* the job-limit check, then the second look at the lock file
CheckLimitAndLock(w) ==
    /\ pc[w] = "check_limit"
    /\ IF LimitReached(w)
       THEN /\ Put(w, CountResult(w, job_count[w]))
            /\ hit_limit' = [hit_limit EXCEPT ![w] = TRUE]
            /\ pc' = [pc EXCEPT ![w] = "exiting"]
       ELSE /\ NoPut
            /\ UNCHANGED hit_limit
            /\ pc' = [pc EXCEPT ![w] = LockBranch(w)]
    /\ UNCHANGED <<config_vars, parent_vars, ledger_vars, lock_files, jobs_txt,
                   todo, res, locked, job_count, outcome, run_count,
                   dup_creates, lock_removals, work_after_limit, rx, ext_vars>>

\* with open(res + '.lock', 'a'): pass   -- creates the file, or opens the
\* one that has appeared since the check
WriteLock(w) ==
    /\ pc[w] = "write_lock"
    /\ lock_files' = lock_files \cup {res[w]}
    /\ dup_creates' = IF res[w] \in lock_files
                      THEN [dup_creates EXCEPT ![res[w]] = @ + 1]
                      ELSE dup_creates
    /\ work_after_limit' = [work_after_limit EXCEPT
                               ![w] = @ \/ job_count[w] = limit]
    /\ pc' = [pc EXCEPT ![w] = "write_jobs"]
    /\ NoPut
    /\ UNCHANGED <<config_vars, parent_vars, ledger_vars, jobs_txt, todo, res,
                   locked, job_count, outcome, run_count, lock_removals,
                   hit_limit, rx, ext_vars>>

\* a variant: the seed is not written to jobs.txt
WriteJobs_NoAppend(w) ==
    /\ pc[w] = "write_jobs"
    /\ pc' = [pc EXCEPT ![w] = "relaxer"]
    /\ NoPut
    /\ UNCHANGED <<config_vars, parent_vars, ledger_vars, lock_files, jobs_txt,
                   todo, res, locked, job_count, outcome, run_count,
                   dup_creates, lock_removals, hit_limit, work_after_limit, rx, ext_vars>>

\* with open(jobs_fname, 'a') as job_file: job_file.write(res + '\n')
WriteJobs(w) ==
    /\ pc[w] = "write_jobs"
    /\ jobs_txt' = Append(jobs_txt, Line(res[w]))
    /\ work_after_limit' = [work_after_limit EXCEPT
                               ![w] = @ \/ job_count[w] = limit]
    /\ pc' = [pc EXCEPT ![w] = "relaxer"]
    /\ NoPut
    /\ UNCHANGED <<config_vars, parent_vars, ledger_vars, lock_files, todo, res,
                   locked, job_count, outcome, run_count, dup_creates,
                   lock_removals, hit_limit, rx, ext_vars>>

\* where a worker goes once FullRelaxer(...) has come to outcome o:
\* an Exception is put on the queue and raised again (except Exception),
\* a SystemExit passes the handler and ends the process
AfterRelaxer(o) ==
    IF o \in ErrorKinds THEN "exiting"
    ELSE IF o = "fatal_exit" THEN "dead"
    ELSE "record"

\* job_count += 1; relaxer = FullRelaxer(...)
RunRelaxer(w) ==
    /\ pc[w] = "relaxer"
    /\ job_count' = [job_count EXCEPT ![w] = @ + 1]
    /\ run_count' = [run_count EXCEPT ![res[w]] = @ + 1]
    /\ \E o \in Outcomes :
         /\ outcome' = [outcome EXCEPT ![w] = IF AfterRelaxer(o) = "record"
                                              THEN o ELSE "none"]
         /\ pc' = [pc EXCEPT ![w] = AfterRelaxer(o)]
         /\ IF o \in ErrorKinds THEN Put(w, ErrorResult(w, o)) ELSE NoPut
    /\ UNCHANGED <<config_vars, parent_vars, ledger_vars, lock_files, jobs_txt,
                   todo, res, locked, dup_creates, lock_removals, hit_limit,
                   work_after_limit, rx, ext_vars>>

\* a variant: the run that came back is written to no ledger
Record_NoLedger(w) ==
    /\ pc[w] = "record"
    /\ pc' = [pc EXCEPT ![w] = IF outcome[w] = "no_memory"
                               THEN "remove_lock" ELSE "for_res"]
    /\ outcome' = [outcome EXCEPT ![w] = "none"]
    /\ NoPut
    /\ UNCHANGED <<config_vars, parent_vars, ledger_vars, lock_files, jobs_txt,
                   todo, res, locked, job_count, run_count, dup_creates,
                   lock_removals, hit_limit, work_after_limit, rx, ext_vars>>

\* the three branches after the run: the first statement of each
\* (relaxer is not read after it)
Record(w) ==
    /\ pc[w] = "record"
    /\ CASE outcome[w] = "no_memory" ->
              /\ memory_txt' = [memory_txt EXCEPT ![res[w]] = @ + 1]
              /\ pc' = [pc EXCEPT ![w] = "remove_lock"]
              /\ UNCHANGED <<completed_txt, failures_txt>>
         [] outcome[w] = "success" ->
              /\ completed_txt' = [completed_txt EXCEPT ![res[w]] = @ + 1]
              /\ pc' = [pc EXCEPT ![w] = "for_res"]
              /\ UNCHANGED <<memory_txt, failures_txt>>
         [] OTHER ->
              /\ failures_txt' = [failures_txt EXCEPT ![res[w]] = @ + 1]
              /\ pc' = [pc EXCEPT ![w] = "for_res"]
              /\ UNCHANGED <<memory_txt, completed_txt>>
    /\ outcome' = [outcome EXCEPT ![w] = "none"]
    /\ NoPut
    /\ UNCHANGED <<config_vars, parent_vars, lock_files, jobs_txt, todo, res,
                   locked, job_count, run_count, dup_creates,
                   lock_removals, hit_limit, work_after_limit, rx, ext_vars>>

\* if os.path.isfile(res.lock): os.remove(res.lock)
RemoveLock(w) ==
    /\ pc[w] = "remove_lock"
    /\ lock_files' = lock_files \ {res[w]}
    /\ lock_removals' = IF res[w] \in lock_files
                        THEN [lock_removals EXCEPT ![res[w]] = @ + 1]
                        ELSE lock_removals
    /\ pc' = [pc EXCEPT ![w] = "strike"]
    /\ NoPut
    /\ UNCHANGED <<config_vars, parent_vars, ledger_vars, jobs_txt, todo, res,
                   locked, job_count, outcome, run_count, dup_creates,
                   hit_limit, work_after_limit, rx, ext_vars>>

\* The rewrite of jobs.txt without the seed.  The with-block reads the lines
\* and seeks to 0; the loop that writes the kept lines and truncates runs
\* after the with-block has closed the file, so its first iteration raises
\* ValueError (write, or truncate, of a closed file) and the file stays as
\* it was.
StrikeFromJobs(n, flines) ==
    [jobs |-> flines, raises |-> Len(flines) > 0]

Strike(w) ==
    /\ pc[w] = "strike"
    /\ LET r == StrikeFromJobs(res[w], jobs_txt)
       IN  /\ jobs_txt' = r.jobs
           /\ IF r.raises
              THEN /\ Put(w, ErrorResult(w, "ValueError"))
                   /\ pc' = [pc EXCEPT ![w] = "exiting"]
              ELSE /\ NoPut
                   /\ pc' = [pc EXCEPT ![w] = "for_res"]
    /\ UNCHANGED <<config_vars, parent_vars, ledger_vars, lock_files, todo, res,
                   locked, job_count, outcome, run_count, dup_creates,
                   lock_removals, hit_limit, work_after_limit, rx, ext_vars>>

\* the process ends once its target has returned or raised
ProcessExit(w) ==
    /\ pc[w] = "exiting"
    /\ pc' = [pc EXCEPT ![w] = "dead"]
    /\ NoPut
    /\ UNCHANGED <<config_vars, parent_vars, ledger_vars, lock_files, jobs_txt,
                   todo, res, locked, job_count, outcome, run_count,
                   dup_creates, lock_removals, hit_limit, work_after_limit, rx, ext_vars>>

(***************************************************************************)
(* Part A.  spawn()                                                        *)
(***************************************************************************)
worker_vars == <<todo, res, locked, job_count, outcome>>
history_vars == <<run_count, dup_creates, lock_removals, results_put, reported,
                  hit_limit, work_after_limit>>
dir_vars == <<lock_files, jobs_txt, memory_txt, completed_txt, failures_txt>>

IsAlive(w) == pc[w] \notin {"idle", "dead"}

\* for proc in procs: proc.start(); if join: proc.join()
StartProc(w) ==
    /\ spawn_pc = "start"
    /\ w \in Procs
    /\ pc[w] = "idle"
    /\ \A v \in Procs : v < w => pc[v] # "idle"
    /\ join => \A v \in Procs : v < w => pc[v] = "dead"
    /\ pc' = [pc EXCEPT ![w] = "for_res"]
    /\ UNCHANGED <<config_vars, parent_vars, dir_vars, worker_vars,
                   history_vars, error_queue, rx, ext_vars>>

\* the starting loop is over (with join, the last worker has ended too)
StartDone ==
    /\ spawn_pc = "start"
    /\ \A w \in Procs : pc[w] # "idle"
    /\ join => \A w \in Procs : pc[w] = "dead"
    /\ spawn_pc' = "collect"
    /\ UNCHANGED <<config_vars, n_collected, errors, raised, joined, dir_vars,
                   worker_vars, history_vars, error_queue, pc, rx, ext_vars>>

\* for _, proc in enumerate(procs): result = error_queue.get(); ...
\* get() blocks while the queue is empty
Collect ==
    /\ spawn_pc = "collect"
    /\ error_queue # <<>>
    /\ LET result == Head(error_queue)
       IN  errors' = IF result.is_error THEN Append(errors, result) ELSE errors
    /\ error_queue' = Tail(error_queue)
    /\ n_collected' = n_collected + 1
    /\ spawn_pc' = IF n_collected + 1 = nprocesses THEN "decide" ELSE "collect"
    /\ UNCHANGED <<config_vars, raised, joined, dir_vars, worker_vars,
                   history_vars, pc, rx, ext_vars>>

\* if len(set([type(error[1]) for error in errors])) == 1:
\*     raise type(errors[0][1])(error_message)
\* raise BundledErrors(error_message)
SpawnError(errs) ==
    IF Cardinality({errs[i].kind : i \in 1..Len(errs)}) = 1
    THEN errs[1].kind
    ELSE "BundledErrors"

\* try: if errors: ... raise
Decide ==
    /\ spawn_pc = "decide"
    /\ IF errors = <<>>
       THEN /\ spawn_pc' = "returned"
            /\ UNCHANGED raised
       ELSE /\ raised' = SpawnError(errors)
            /\ spawn_pc' = "join"
    /\ UNCHANGED <<config_vars, n_collected, errors, joined, dir_vars,
                   worker_vars, history_vars, error_queue, pc, rx, ext_vars>>

\* except Exception as err: result = [proc.join(timeout=10) for proc in procs]
\* (each wait ends when the worker has ended or the 10 s are over)
JoinAll ==
    /\ spawn_pc = "join"
    /\ joined' = Procs
    /\ spawn_pc' = "terminate"
    /\ UNCHANGED <<config_vars, n_collected, errors, raised, dir_vars,
                   worker_vars, history_vars, error_queue, pc, rx, ext_vars>>

\* a variant: nothing is terminated
ToTerminate_Nobody == {}

\* the workers of  [proc.terminate() for proc in procs if proc.is_alive()]
ToTerminate == {w \in Procs : IsAlive(w)}

TerminateAlive ==
    /\ spawn_pc = "terminate"
    /\ pc' = [w \in AllProcs |-> IF w \in ToTerminate THEN "dead" ELSE pc[w]]
    /\ spawn_pc' = "reraise"
    /\ UNCHANGED <<config_vars, n_collected, errors, raised, joined, dir_vars,
                   worker_vars, history_vars, error_queue, rx, ext_vars>>

\* raise err
Reraise ==
    /\ spawn_pc = "reraise"
    /\ spawn_pc' = "raised"
    /\ UNCHANGED <<config_vars, n_collected, errors, raised, joined, dir_vars,
                   worker_vars, history_vars, error_queue, pc, rx, ext_vars>>

(***************************************************************************)
(* Part A.  The state after BatchRun.__init__, before spawn().             *)
(***************************************************************************)
\* the other components are not in use
Idle == [pc |-> "idle"]

ExtIdle == rf = Idle /\ sp = Idle /\ fold = Idle /\ hl = Idle

RxIdle == [pc |-> "idle"]

\* the state before spawn() in a folder with the given lock files and
\* ledger, the parent being at the given position
BatchInitIn(np, lim, ign, jn, files, locks, jobs, at) ==
    /\ nprocesses = np
    /\ limit = lim
    /\ ignore_jobs_file = ign
    /\ join = jn
    /\ res_files = files
    /\ lock_files = locks
    /\ jobs_txt = jobs
    /\ memory_txt = [n \in files |-> 0]
    /\ completed_txt = [n \in files |-> 0]
    /\ failures_txt = [n \in files |-> 0]
    /\ pc = [w \in AllProcs |-> "idle"]
    /\ todo = [w \in AllProcs |-> files]
    /\ res = [w \in AllProcs |-> 0]
    /\ locked = [w \in AllProcs |-> FALSE]
    /\ job_count = [w \in AllProcs |-> 0]
    /\ outcome = [w \in AllProcs |-> "none"]
    /\ error_queue = <<>>
    /\ spawn_pc = at
    /\ n_collected = 0
    /\ errors = <<>>
    /\ raised = "none"
    /\ joined = {}
    /\ run_count = [n \in files |-> 0]
    /\ dup_creates = [n \in files |-> 0]
    /\ lock_removals = [n \in files |-> 0]
    /\ results_put = [w \in AllProcs |-> 0]
    /\ reported = [w \in AllProcs |-> NoLimit]
    /\ hit_limit = [w \in AllProcs |-> FALSE]
    /\ work_after_limit = [w \in AllProcs |-> FALSE]

\* a fresh folder
BatchInit(np, lim, ign, jn, files) ==
    BatchInitIn(np, lim, ign, jn, files, {}, <<>>, "start")

Limits == {NoLimit} \cup 0..MaxLimit

Init ==
    /\ \E np \in 1..MaxProcesses, nf \in 1..NumSeeds, lim \in Limits,
          ign \in BOOLEAN, jn \in BOOLEAN :
          /\ np * nf <= MaxVisits
          /\ BatchInit(np, lim, ign, jn, 1..nf)
    /\ rx = RxIdle
    /\ ExtIdle

Next ==
    \/ \E w \in Procs : NextCandidate(w)
    \/ \E w \in Procs : CheckListed(w)
    \/ \E w \in Procs : CheckLimitAndLock(w)
    \/ \E w \in Procs : WriteLock(w)
    \/ \E w \in Procs : WriteJobs(w)
    \/ \E w \in Procs : RunRelaxer(w)
    \/ \E w \in Procs : Record(w)
    \/ \E w \in Procs : RemoveLock(w)
    \/ \E w \in Procs : Strike(w)
    \/ \E w \in Procs : ProcessExit(w)
    \/ \E w \in Procs : StartProc(w)
    \/ StartDone
    \/ Collect
    \/ Decide
    \/ JoinAll
    \/ TerminateAlive
    \/ Reraise

Spec == Init /\ [][Next]_vars

\* The scenario of the end-to-end test: 3 result files with unrelated names,
\* 2 workers, an empty jobs ledger.  A job limit "of 2 combined" is read
\* both ways: 1 per worker, or limit=2 as configured.
ScenarioInit ==
    /\ \E lim \in {1, 2}, jn \in BOOLEAN :
          BatchInit(2, lim, FALSE, jn, {1, 2, 4})
    /\ rx = RxIdle
    /\ ExtIdle

SpecScenario == ScenarioInit /\ [][Next]_vars

(***************************************************************************)
(* Part B.  FullRelaxer.relax() and FullRelaxer.scf() on one seed.         *)
(*                                                                         *)
(* rx is a record:                                                         *)
(*   mode, keep          relax or scf, and scf's keep                      *)
(*   geom_max_iter_list  the schedule built by __init__                    *)
(*   pc, ind, rerun      position, loop index (from 0) and self.rerun      *)
(*   optimised           opti_dict['optimised'] of the sub-run just parsed *)
(*   cwd, bad, completed, input   the seed's files in the working folder,  *)
(*                       in bad_castep/, in completed/, in input/          *)
(*   result              what the call came to: "running", "True",         *)
(*                       "False", "None" (the loop ran out) or "SystemExit"*)
(*   history: num_iters, reruns, optimiseds (one entry per sub-run), log   *)
(*   (the file operations of the ending), interrupted, excepted, crashed,  *)
(*   parse_failed (what happened to the call)                              *)
(***************************************************************************)
MaxRough == 2          \* the largest rough (number of rough sub-runs)
MaxFine == 2           \* the largest geom_max_iter / 20

fine_iter == 20
rough_iter == 2
rough_iter_tpsd == 3
last_num_iter == 2

\* self.geom_max_iter_list, from  rough, geom_method and geom_max_iter
Repeat(n, x) == [i \in 1..n |-> x]

\* this variant takes the cap of 2 for every method
GeomMaxIterList_NoTpsd(rough, tpsd, max_iter) ==
    Repeat(rough, rough_iter) \o Repeat(max_iter \div fine_iter, fine_iter)

GeomMaxIterList(rough, tpsd, max_iter) ==
    Repeat(rough, IF tpsd THEN rough_iter_tpsd ELSE rough_iter)
        \o Repeat(max_iter \div fine_iter, fine_iter)

\* os.system('mv <seed>* bad_castep')
mv_to_bad(r) ==
    [r EXCEPT !.bad = @ \cup r.cwd, !.cwd = {}, !.log = Append(@, "mv_to_bad")]

\* os.system('rm <seed>*')
tidy_up(r) ==
    [r EXCEPT !.cwd = {}, !.log = Append(@, "tidy_up")]

\* mv <seed>* completed  when keep, else only <seed>.castep and <seed>.res
mv_to_completed(r, keep) ==
    LET moved == IF keep THEN r.cwd ELSE r.cwd \cap {"castep", "res"}
    IN  [r EXCEPT !.completed = @ \cup moved, !.cwd = @ \ moved,
                  !.log = Append(@, "mv_to_completed")]

\* the call ends with v
Ends(r, v) == [r EXCEPT !.result = v, !.pc = "done"]

\* relax(): except(KeyboardInterrupt)
RelaxOnInterrupt(r) ==
    Ends(tidy_up(mv_to_bad([r EXCEPT !.interrupted = TRUE])), "SystemExit")

\* relax(): except(SystemExit): exit()
RelaxOnSystemExit(r) == Ends(r, "SystemExit")

\* relax(): the bare except
RelaxOnException(r) ==
    Ends(tidy_up(mv_to_bad([r EXCEPT !.excepted = TRUE])), "False")

\* scf(): except(SystemExit, KeyboardInterrupt)
ScfOnInterrupt(r) ==
    LET a == mv_to_bad([r EXCEPT !.interrupted = TRUE])
    IN  Ends(IF ~r.keep THEN tidy_up(a) ELSE a, "SystemExit")

\* scf(): the bare except
ScfOnException(r) ==
    LET a == [r EXCEPT !.excepted = TRUE]
    IN  Ends(tidy_up(IF ~r.keep THEN mv_to_bad(a) ELSE a), "False")

\* what can happen while a group of statements runs
Events == {"ok", "exception", "interrupt"}

\* the part of a try body's step that is the same in relax(): the handler
\* taken when the step does not run to its end
RelaxHandle(r, ev) ==
    IF ev = "interrupt" THEN RelaxOnInterrupt(r) ELSE RelaxOnException(r)

ScfHandle(r, ev) ==
    IF ev = "interrupt" THEN ScfOnInterrupt(r) ELSE ScfOnException(r)

\* relax(), up to the loop: cp_to_input, self.rerun = False
RelaxEnter ==
    /\ rx.pc = "enter"
    /\ rx.mode = "relax"
    /\ rx' = LET r == [rx EXCEPT !.input = TRUE, !.rerun = FALSE, !.ind = 0]
             IN  IF r.geom_max_iter_list = <<>>
                 THEN Ends(r, "None")            \* the loop body never runs
                 ELSE [r EXCEPT !.pc = "castep"]
    /\ UNCHANGED <<batch_vars, ext_vars>>

\* num_iter of the sub-run at index ind
NumIter(r) == IF r.rerun THEN last_num_iter ELSE r.geom_max_iter_list[r.ind + 1]

\* if ind != 0: self.spin = False (lines 138-139); this variant keeps it
ClearSpin_Never(ind, spin) == spin

ClearSpin(ind, spin) == IF ind # 0 THEN FALSE ELSE spin

\* the fields of the document castep2dict returns that are followed here,
\* after the three fields of lines 163-165 are deleted
OptiDictFields == {"optimised", "lattice_cart", "positions_frac", "enthalpy"}

\* the sub-run: new param and cell, then CASTEP, which may leave a crash
\* marker (<seed>*001.err); cell_spins records what doc2cell is given: the
\* spin flag, and whether calc_doc holds atomic_init_spins
RunCastep ==
    /\ rx.pc = "castep"
    /\ \E ev \in Events, crash \in BOOLEAN, wrote \in BOOLEAN :
         LET r0 == [rx EXCEPT
                      !.spin = ClearSpin(rx.ind, @),
                      !.cell_spins =
                          Append(@, [spin |-> ClearSpin(rx.ind, rx.spin),
                                     init_spins |->
                                         "atomic_init_spins" \in rx.calc_doc]),
                      !.num_iters = Append(@, NumIter(rx)),
                      !.reruns = Append(@, rx.rerun)]
             r1 == [r0 EXCEPT
                      !.cwd = (@ \cup {"param", "cell", "castep"})
                                 \cup (IF crash THEN {"err"} ELSE {}),
                      !.crashed = crash]
         IN  rx' = IF ev = "ok" THEN [r1 EXCEPT !.pc = "scrape"]
                   ELSE RelaxHandle(IF wrote THEN r1 ELSE r0, ev)
    /\ UNCHANGED <<batch_vars, ext_vars>>

\* opti_dict, success = castep2dict(...); exit() when the scrape failed
Scrape ==
    /\ rx.pc = "scrape"
    /\ \E ev \in Events, parsed \in BOOLEAN, opt \in BOOLEAN :
         rx' = IF ev # "ok" THEN RelaxHandle(rx, ev)
               ELSE IF ~parsed
               THEN RelaxOnSystemExit([rx EXCEPT !.parse_failed = TRUE])
               ELSE [rx EXCEPT !.optimised = opt,
                               !.optimiseds = Append(@, opt),
                               !.pc = "strip"]
    /\ UNCHANGED <<batch_vars, ext_vars>>

\* try: del opti_dict[...] (three of them)  except: print_exc(); pass
\* whatever is raised in here, a KeyboardInterrupt too, is dropped
StripFields ==
    /\ rx.pc = "strip"
    /\ \E ev \in Events :
         rx' = [rx EXCEPT !.pc = "branch",
                          !.interrupted = @ \/ ev = "interrupt"]
    /\ UNCHANGED <<batch_vars, ext_vars>>

\* lines 169-227 run to their end: the branches on rerun and optimised, the
\* crash-marker check, the update of the res file, and the next index
Branch(r) ==
    LET rerun1 == r.rerun /\ r.optimised          \* line 169-170
        last == r.ind = Len(r.geom_max_iter_list) - 1
        wrote_res == [r EXCEPT !.cwd = @ \cup {"res"}]
        \* lines 214-215 and 227
        restart(q) == [q EXCEPT !.calc_doc = (@ \ {"atomic_init_spins"})
                                                \cup OptiDictFields]
        next_ind(q) == IF last THEN Ends(restart(q), "None")
                       ELSE [restart(q) EXCEPT !.ind = @ + 1, !.pc = "castep"]
        err_check(q) == IF "err" \in q.cwd
                        THEN Ends(mv_to_bad(q), "False")
                        ELSE next_ind(q)
    IN  IF ~rerun1 /\ r.optimised
        THEN err_check([wrote_res EXCEPT !.rerun = TRUE])
        ELSE IF rerun1 /\ r.optimised
        THEN Ends(tidy_up(mv_to_completed(wrote_res, FALSE)), "True")
        ELSE IF last
        THEN Ends(mv_to_bad([wrote_res EXCEPT !.rerun = FALSE]), "False")
        ELSE err_check([wrote_res EXCEPT !.rerun = FALSE])

BranchOnResult ==
    /\ rx.pc = "branch"
    /\ \E ev \in Events :
         rx' = IF ev = "ok" THEN Branch(rx) ELSE RelaxHandle(rx, ev)
    /\ UNCHANGED <<batch_vars, ext_vars>>

\* scf(): doc2param, doc2cell, CASTEP
ScfRun ==
    /\ rx.pc = "enter"
    /\ rx.mode = "scf"
    /\ \E ev \in Events, crash \in BOOLEAN, wrote \in BOOLEAN :
         LET r1 == [rx EXCEPT
                      !.cwd = (@ \cup {"param", "cell", "castep"})
                                 \cup (IF crash THEN {"err"} ELSE {}),
                      !.crashed = crash]
         IN  rx' = IF ev = "ok" THEN [r1 EXCEPT !.pc = "scf_scrape"]
                   ELSE ScfHandle(IF wrote THEN r1 ELSE rx, ev)
    /\ UNCHANGED <<batch_vars, ext_vars>>

\* scf(), lines 252-263 run to their end
ScfFinish(r) ==
    IF "err" \in r.cwd
    THEN Ends(mv_to_bad(r), "False")
    ELSE LET a == mv_to_completed(r, r.keep)
         IN  Ends(IF ~r.keep THEN tidy_up(a) ELSE a, "True")

ScfScrape ==
    /\ rx.pc = "scf_scrape"
    /\ \E ev \in Events :
         rx' = IF ev = "ok" THEN ScfFinish(rx) ELSE ScfHandle(rx, ev)
    /\ UNCHANGED <<batch_vars, ext_vars>>

\* the state on entry to relax() or scf(), called by __init__
RxEnter(mode, keep, list) ==
    [mode |-> mode, keep |-> keep, geom_max_iter_list |-> list,
     pc |-> "enter", ind |-> 0, rerun |-> FALSE, optimised |-> FALSE,
     cwd |-> {"res"}, bad |-> {}, completed |-> {}, input |-> FALSE,
     result |-> "running",
     num_iters |-> <<>>, reruns |-> <<>>, optimiseds |-> <<>>, log |-> <<>>,
     interrupted |-> FALSE, excepted |-> FALSE, crashed |-> FALSE,
     parse_failed |-> FALSE,
     spin |-> FALSE, calc_doc |-> {}, cell_spins |-> <<>>]

\* the spin argument, and a cell file with or without initial spins
WithSpin(r, spin, init_spins) ==
    [r EXCEPT !.spin = spin,
              !.calc_doc = IF init_spins THEN {"atomic_init_spins"} ELSE {}]

GeomMaxIters == {fine_iter * k + r : k \in 0..MaxFine, r \in {0, fine_iter - 1}}

RelaxInit ==
    /\ BatchInit(1, NoLimit, FALSE, FALSE, {1})
    /\ ExtIdle
    /\ \/ \E rough \in 0..MaxRough, tpsd \in BOOLEAN, max_iter \in GeomMaxIters,
             spin \in BOOLEAN, init_spins \in BOOLEAN :
             rx = WithSpin(RxEnter("relax", FALSE,
                                   GeomMaxIterList(rough, tpsd, max_iter)),
                           spin, init_spins)
       \/ \E keep \in BOOLEAN : rx = RxEnter("scf", keep, <<>>)

RelaxNext ==
    \/ RelaxEnter
    \/ RunCastep
    \/ Scrape
    \/ StripFields
    \/ BranchOnResult
    \/ ScfRun
    \/ ScfScrape

SpecRelax == RelaxInit /\ [][RelaxNext]_vars

(***************************************************************************)
(* FullRelaxer.__init__ (compute.py:27-114): the structure is read, the    *)
(* pseudopotential files are looked for, and the run mode is chosen.  The  *)
(* record rx carries, besides the fields of relax() and scf(), the         *)
(* arguments of the constructor:                                           *)
(*   res_ok          the res file parsed                                   *)
(*   stoichiometry   the elements of the structure, in order               *)
(*   pseudo_files    the elements whose species_pot file exists            *)
(*   conv_cutoff, conv_kpt   the number of values to sweep, or NoSweep     *)
(*   task, rough, tpsd, max_iter, start                                    *)
(*   sweep_left      values of the sweep not yet run                       *)
(*   scf_calls, relax_calls  calls made so far                             *)
(***************************************************************************)
MaxSweep == 2          \* the longest conv_cutoff / conv_kpt list

NoSweep == -1          \* conv_cutoff=None, conv_kpt=None

Elements == {"A", "B"}
Stoichiometries == {<<"A">>, <<"B">>, <<"A", "B">>, <<"B", "A">>}
Tasks == {"singlepoint", "SPECTRAL", "geometryoptimisation"}

\* str.upper() on the task names in use
Upper(t) ==
    CASE t = "singlepoint" -> "SINGLEPOINT"
      [] t = "geometryoptimisation" -> "GEOMETRYOPTIMISATION"
      [] OTHER -> t

\* for elem in res_dict['stoichiometry']: isfile(calc_doc['species_pot'][elem[0]])
PseudosPresent_FirstOnly(stoich, files) == stoich[1] \in files

PseudosPresent(stoich, files) == \A i \in 1..Len(stoich) : stoich[i] \in files

\* the if / elif chain of lines 78-95
RunMode(r) ==
    IF r.conv_cutoff # NoSweep THEN "conv_cutoff"
    ELSE IF r.conv_kpt # NoSweep THEN "conv_kpt"
    ELSE IF Upper(r.task) \in {"SPECTRAL", "SINGLEPOINT"} THEN "singlepoint"
    ELSE "geom"

\* self.success = self.scf(calc_doc, seed, keep); files are the seed's files
\* present when the call starts
CallScf(r, keep, files) ==
    [r EXCEPT !.mode = "scf", !.keep = keep, !.pc = "enter", !.cwd = files,
              !.result = "running", !.crashed = FALSE,
              !.scf_calls = @ + 1]

\* for cutoff in self.conv_cutoff / for kpt in self.conv_kpt: the seed of
\* each value is new (<seed>_<value>eV, <seed>_<value>A)
StartSweep(r, n) ==
    IF n = 0 THEN Ends(r, "None")
    ELSE CallScf([r EXCEPT !.sweep_left = n - 1], FALSE, {})

\* if self.start: self.success = self.relax()
CallRelax(r) ==
    IF ~r.start THEN Ends(r, "None")
    ELSE [r EXCEPT !.mode = "relax", !.pc = "enter", !.result = "running",
                   !.geom_max_iter_list =
                       GeomMaxIterList(r.rough, r.tpsd, r.max_iter),
                   !.relax_calls = @ + 1]

Construct ==
    /\ rx.pc = "new"
    /\ rx' = IF ~rx.res_ok THEN Ends(rx, "False")
             ELSE IF ~PseudosPresent(rx.stoichiometry, rx.pseudo_files)
             THEN Ends(rx, "SystemExit")
             ELSE CASE RunMode(rx) = "conv_cutoff" -> StartSweep(rx, rx.conv_cutoff)
                    [] RunMode(rx) = "conv_kpt" -> StartSweep(rx, rx.conv_kpt)
                    [] RunMode(rx) = "singlepoint" -> CallScf(rx, TRUE, {"res"})
                    [] OTHER -> CallRelax(rx)
    /\ UNCHANGED <<batch_vars, ext_vars>>

\* the next value of a sweep, after scf() has returned
SweepStep ==
    /\ rx.pc = "done"
    /\ rx.mode = "scf"
    /\ rx.result \in {"True", "False"}
    /\ rx.sweep_left > 0
    /\ rx' = CallScf([rx EXCEPT !.sweep_left = @ - 1], FALSE, {})
    /\ UNCHANGED <<batch_vars, ext_vars>>

\* the arguments, before __init__ has run
RxNew(res_ok, stoich, files, cutoff, kpt, task, rough, tpsd, max_iter, start) ==
    [res_ok |-> res_ok, stoichiometry |-> stoich, pseudo_files |-> files,
     conv_cutoff |-> cutoff, conv_kpt |-> kpt, task |-> task,
     rough |-> rough, tpsd |-> tpsd, max_iter |-> max_iter, start |-> start,
     sweep_left |-> 0, scf_calls |-> 0, relax_calls |-> 0]
        @@ [RxEnter("none", FALSE, <<>>) EXCEPT !.pc = "new"]

Sweeps == {NoSweep} \cup 0..MaxSweep

ConstructInit ==
    /\ BatchInit(1, NoLimit, FALSE, FALSE, {1})
    /\ ExtIdle
    /\ \E res_ok \in BOOLEAN, stoich \in Stoichiometries,
          files \in SUBSET Elements :
          \/ \E cutoff \in Sweeps, kpt \in Sweeps, task \in Tasks :
                /\ cutoff # NoSweep \/ kpt # NoSweep
                     \/ Upper(task) \in {"SPECTRAL", "SINGLEPOINT"}
                /\ rx = RxNew(res_ok, stoich, files, cutoff, kpt, task,
                              0, FALSE, 0, TRUE)
          \/ \E rough \in 0..MaxRough, tpsd \in BOOLEAN,
                max_iter \in GeomMaxIters, start \in BOOLEAN :
                rx = RxNew(res_ok, stoich, files, NoSweep, NoSweep,
                           "geometryoptimisation", rough, tpsd, max_iter, start)

ConstructNext ==
    \/ Construct
    \/ SweepStep
    \/ RelaxEnter
    \/ RunCastep
    \/ Scrape
    \/ StripFields
    \/ BranchOnResult
    \/ ScfRun
    \/ ScfScrape

SpecConstruct == ConstructInit /\ [][ConstructNext]_vars

(***************************************************************************)
(* Part C.  Refiner (src/matador/refine.py) and the collection it writes   *)
(* to, with another process writing to the same collection.  rf is a       *)
(* record:                                                                 *)
(*   task, mode_arg, collection   the arguments (collection: one is given) *)
(*   mode, field         self.mode, self.field                             *)
(*   cursor              the documents read, a sequence of ids             *)
(*   snapshot            the target field of each as it was read           *)
(*   stored              the target field of each in the collection now    *)
(*   diff_cursor         self.diff_cursor, ids of the changed documents    *)
(*   requests, next_req  the UpdateOne requests and the one applied next   *)
(*   analysed, displayed, modified   documents gone through by the task,   *)
(*                       printed in display mode, modified by bulk_write   *)
(*   other_writes        writes made by the other process                  *)
(*   result              "running", "returned", "SystemExit" or            *)
(*                       "InvalidOperation"                                *)
(* A field is "absent", or holds the value read ("old"), the recomputed    *)
(* one ("new") or the other process's ("theirs").                          *)
(***************************************************************************)
MaxDocs == 2           \* documents of the cursor
MaxOtherWrites == 2    \* writes of the other process during one run

possible_tasks == {"sym", "spg", "substruc", "sub", "ratios", "remove"}
possible_modes == {"display", "overwrite", "set"}
NoTask == "None"
TaskArgs == possible_tasks \cup {NoTask, "symm"}
ModeArgs == possible_modes \cup {"show"}

RfEnds(r, v) == [r EXCEPT !.pc = "done", !.result = v]

\* __init__, lines 23-44
RefinerValidate ==
    /\ rf.pc = "new"
    /\ LET mode == IF rf.mode_arg \notin possible_modes THEN "display"
                   ELSE rf.mode_arg
       IN  rf' = IF ~rf.collection /\ mode \in {"overwrite", "set"}
                 THEN RfEnds(rf, "SystemExit")
                 ELSE IF rf.task = NoTask THEN RfEnds(rf, "SystemExit")
                 ELSE IF rf.task \notin possible_tasks
                 THEN RfEnds(rf, "SystemExit")
                 ELSE [rf EXCEPT !.mode = mode, !.pc = "task"]
    /\ UNCHANGED not_rf

\* what the task's loop can come to for one document with target field v
DocOutcomes(task, v) ==
    IF task \in {"sym", "spg"}
    THEN IF v = "absent" THEN {"fail"} ELSE {"fail", "same", "changed"}
    ELSE IF task \in {"substruc", "sub", "ratios"} THEN {"fail", "changed"}
    ELSE {"skipped"}

\* self.field, lines 46-57
FieldOf(task) ==
    IF task \in {"sym", "spg"} THEN "space_group"
    ELSE IF task \in {"substruc", "sub"} THEN "substruc"
    ELSE IF task = "ratios" THEN "ratios"
    ELSE "unset"

\* the ids of seq (in order) whose outcome is "changed"
RECURSIVE Changed(_, _)
Changed(seq, out) ==
    IF seq = <<>> THEN <<>>
    ELSE (IF out[Head(seq)] = "changed" THEN <<Head(seq)>> ELSE <<>>)
            \o Changed(Tail(seq), out)

\* documents printed by the task in display mode
Displayed(task, mode, out) ==
    IF mode # "display" THEN 0
    ELSE IF task \in {"sym", "spg"}
    THEN Cardinality({d \in DOMAIN out : out[d] \in {"same", "changed"}})
    ELSE IF task \in {"substruc", "sub"}
    THEN Cardinality({d \in DOMAIN out : out[d] = "changed"})
    ELSE 0

\* update_docs, lines 69-77: one request per document of diff_cursor
Requests(mode, diff) ==
    [i \in 1..Len(diff) |-> [id |-> diff[i], absent_only |-> mode = "set"]]

\* the documents for which the task's loop adds 1 to changed_count:
\* substruc adds it before the analysis is tried (line 89), symmetry and
\* ratios once the document has changed (lines 113, 139)
CountedChanged(task, out) ==
    IF task \in {"substruc", "sub"}
    THEN {d \in DOMAIN out : out[d] \in {"fail", "changed"}}
    ELSE {d \in DOMAIN out : out[d] = "changed"}

\* the documents for which the except clause adds 1 to failed_count
CountedFailed(task, out) == {d \in DOMAIN out : out[d] = "fail"}

\* the task's loop over the cursor, the two report lines, and update_docs
\* up to the call of bulk_write
RefinerTask ==
    /\ rf.pc = "task"
    /\ \E out \in [DOMAIN rf.snapshot -> {"fail", "same", "changed", "skipped"}] :
         /\ \A d \in DOMAIN out : out[d] \in DocOutcomes(rf.task, rf.snapshot[d])
         /\ LET diff == Changed(rf.cursor, out)
                r == [rf EXCEPT
                        !.diff_cursor = diff,
                        !.changed_docs = CountedChanged(rf.task, out),
                        !.changed_count =
                            Cardinality(CountedChanged(rf.task, out)),
                        !.failed_docs = CountedFailed(rf.task, out),
                        !.failed_count =
                            Cardinality(CountedFailed(rf.task, out)),
                        !.field = FieldOf(rf.task),
                        !.analysed = IF rf.task = "remove" THEN 0
                                     ELSE Len(rf.cursor),
                        !.displayed = Displayed(rf.task, rf.mode, out)]
            IN  rf' = IF r.mode \notin {"set", "overwrite"}
                      THEN RfEnds(r, "returned")
                      ELSE IF diff = <<>>
                      THEN RfEnds(r, "InvalidOperation")   \* bulk_write([])
                      ELSE [r EXCEPT !.requests = Requests(r.mode, diff),
                                     !.next_req = 1,
                                     !.pc = "bulk_write"]
    /\ UNCHANGED not_rf

\* the filter of an UpdateOne: {'_id': ..., field: {'$exists': False}} in set
\* mode, {'_id': ...} in overwrite mode
Matches_IdOnly(req, stored) == req.id \in DOMAIN stored

Matches(req, stored) ==
    /\ req.id \in DOMAIN stored
    /\ req.absent_only => stored[req.id] = "absent"

\* the server applies the next request of the bulk write
BulkWriteStep ==
    /\ rf.pc = "bulk_write"
    /\ LET req == rf.requests[rf.next_req]
           hit == Matches(req, rf.stored)
           r == [rf EXCEPT
                   !.stored = IF hit THEN [@ EXCEPT ![req.id] = "new"] ELSE @,
                   !.modified = IF hit /\ rf.stored[req.id] # "new"
                                THEN @ + 1 ELSE @,
                   !.next_req = @ + 1]
       IN  rf' = IF rf.next_req = Len(rf.requests) THEN RfEnds(r, "returned")
                 ELSE r
    /\ UNCHANGED not_rf

\* another process sets or unsets the target field of a document, at any
\* time after the cursor was read
OtherWriter ==
    /\ rf.pc \in {"new", "task", "bulk_write"}
    /\ rf.other_writes < MaxOtherWrites
    /\ \E d \in DOMAIN rf.stored, v \in {"theirs", "absent"} :
         /\ rf.stored[d] # v
         /\ rf' = [rf EXCEPT !.stored[d] = v, !.other_writes = @ + 1]
    /\ UNCHANGED not_rf

RfNew(task, mode, coll, snap) ==
    [pc |-> "new", task |-> task, mode_arg |-> mode, collection |-> coll,
     mode |-> "unset", field |-> "unset",
     cursor |-> [i \in DOMAIN snap |-> i], snapshot |-> snap, stored |-> snap,
     diff_cursor |-> <<>>, requests |-> <<>>, next_req |-> 0,
     analysed |-> 0, displayed |-> 0, modified |-> 0, other_writes |-> 0,
     result |-> "running",
     changed_count |-> 0, failed_count |-> 0,
     changed_docs |-> {}, failed_docs |-> {}]

RefinerInit ==
    /\ BatchInit(1, NoLimit, FALSE, FALSE, {1})
    /\ rx = RxIdle
    /\ sp = Idle /\ fold = Idle /\ hl = Idle
    /\ \E task \in TaskArgs, mode \in ModeArgs, coll \in BOOLEAN,
          n \in 1..MaxDocs :
          \E snap \in [1..n -> {"absent", "old"}] :
             rf = RfNew(task, mode, coll, snap)

RefinerNext ==
    \/ RefinerValidate
    \/ RefinerTask
    \/ BulkWriteStep
    \/ OtherWriter

SpecRefiner == RefinerInit /\ [][RefinerNext]_vars

(***************************************************************************)
(* Part D.  Spatula (src/src/scrapers/spatula.py), the importer: one run   *)
(* of its constructor over a directory tree.  sp is a record:              *)
(*   dryrun          the argument                                          *)
(*   tree            file_lists in the order files2db goes through it: a   *)
(*                   sequence of roots with their file counts              *)
(*   corpus          the structures the scrapers can return for the files  *)
(*   root, kind, file   the position of files2db                           *)
(*   logfile         the name of the log file opened                       *)
(*   connected       a MongoClient was made                                *)
(*   repo            the documents inserted in the structure collection    *)
(*   import_count    self.import_count                                     *)
(*   db_ops          every operation issued to the database, in order      *)
(*   parsed          files scraped with success (history)                  *)
(*   result          "running", "returned", "exit" or "AttributeError"     *)
(* A structure is a record of its stoichiometry (the elements in order),   *)
(* has_pot ('species_pot' in struct) and species_pot (element -> string).  *)
(***************************************************************************)
MaxRoots == 2          \* directories of the tree
MaxElems == 2          \* elements of a stoichiometry

full_quality == 5

SpElements == {"A", "B", "C"}

\* pseudopotential strings, as sequences of characters: a file name, and two
\* on-the-fly definitions
PotFile == <<"A", "_", "0", "0", ".", "u", "s", "p">>
PotOtfLower == <<"2", "|", "1", ".", "2", "|", "o", "t", "f">>
PotOtfUpper == <<"A", "_", "O", "T", "F", ".", "u", "s", "p">>
Pots == {PotFile, PotOtfLower, PotOtfUpper}

\* str.upper() on the characters in use
UpperChar(c) ==
    CASE c = "o" -> "O" [] c = "t" -> "T" [] c = "f" -> "F"
      [] c = "u" -> "U" [] c = "s" -> "S" [] c = "p" -> "P"
      [] OTHER -> c

StrUpper(str) == [i \in DOMAIN str |-> UpperChar(str[i])]

\* struct2db, lines 155-163: the loop over the stoichiometry from element i
\* on, with the quality q reached so far
RECURSIVE QualityLoop_NoBreak(_, _, _)
QualityLoop_NoBreak(struct, i, q) ==
    IF i > Len(struct.stoichiometry) THEN q
    ELSE LET elem == struct.stoichiometry[i]
         IN  IF elem \notin DOMAIN struct.species_pot
             THEN QualityLoop_NoBreak(struct, i + 1, 0)
             ELSE QualityLoop_NoBreak(struct, i + 1,
                      IF Contains(<<"O", "T", "F">>,
                                  StrUpper(struct.species_pot[elem]))
                      THEN q - 1 ELSE q)

RECURSIVE QualityLoop(_, _, _)
QualityLoop(struct, i, q) ==
    IF i > Len(struct.stoichiometry) THEN q
    ELSE LET elem == struct.stoichiometry[i]
         IN  IF elem \notin DOMAIN struct.species_pot
             THEN 0                                   \* break
             ELSE QualityLoop(struct, i + 1,
                      IF Contains(<<"O", "T", "F">>,
                                  StrUpper(struct.species_pot[elem]))
                      THEN q - 1 ELSE q)

\* struct['quality'], lines 150-163
Quality(struct) ==
    IF ~struct.has_pot THEN 0 ELSE QualityLoop(struct, 1, full_quality)

\* struct2db: the document is given its quality and inserted
Struct2db(s, struct) ==
    LET doc == [stoichiometry |-> struct.stoichiometry,
                has_pot |-> struct.has_pot,
                species_pot |-> struct.species_pot,
                quality |-> Quality(struct)]
    IN  [s EXCEPT !.repo = @ \cup {doc},
                  !.db_ops = Append(@, "insert_one"),
                  !.import_count = @ + 1]

\* the guard of every insertion: if not self.dryrun
Commits_Always(s) == TRUE

Commits(s) == ~s.dryrun

SpEnds(s, v) == [s EXCEPT !.pc = "done", !.result = v]

\* __init__, lines 38-85: the log file, the word lists, the connection
SpOpen ==
    /\ sp.pc = "new"
    /\ \E words_ok \in BOOLEAN :
         sp' = IF ~sp.dryrun /\ ~words_ok THEN SpEnds(sp, "exit")
               ELSE LET s == [sp EXCEPT
                                !.logfile = IF sp.dryrun
                                            THEN "spatula.log.dryrun"
                                            ELSE "spatula.log",
                                !.pc = "files", !.root = 1,
                                !.kind = "struct", !.file = 1]
                    IN  IF ~sp.dryrun
                        THEN [s EXCEPT !.connected = TRUE,
                                       !.db_ops = <<"connect", "drop_report">>]
                        ELSE s
    /\ UNCHANGED not_sp

\* lines 182-186
Airss(root) ==
    /\ root.res > 0
    /\ root.castep < root.res
    /\ root.cell <= root.res

\* the structure files files2db scrapes in a root
StructFiles(root) == IF Airss(root) THEN root.res ELSE root.castep

\* the next file of files2db: a res or castep file of the root it is in
ImportFile ==
    /\ sp.pc = "files"
    /\ sp.root <= Len(sp.tree)
    /\ sp.file <= StructFiles(sp.tree[sp.root])
    /\ \E ok \in BOOLEAN, struct \in sp.corpus :
         sp' = LET s == [sp EXCEPT !.file = @ + 1]
               IN  IF ~ok THEN s
                   ELSE LET t == [s EXCEPT !.parsed = @ + 1]
                        IN  IF Commits(t) THEN Struct2db(t, struct) ELSE t
    /\ UNCHANGED not_sp

\* the root has no file left: the next root, or the end of the loop
NextRoot ==
    /\ sp.pc = "files"
    /\ sp.root <= Len(sp.tree)
    /\ sp.file > StructFiles(sp.tree[sp.root])
    /\ sp' = IF sp.root < Len(sp.tree)
             THEN [sp EXCEPT !.root = @ + 1, !.file = 1]
             ELSE [sp EXCEPT !.pc = "expt", !.kind = "synth", !.file = 1]
    /\ UNCHANGED not_sp

\* lines 296-311: the synth files, then the expt files, of the root the loop
\* ended on; self.exp2db is not a method of Spatula
ImportExpt ==
    /\ sp.pc = "expt"
    /\ LET root == sp.tree[sp.root]
           n == IF sp.kind = "synth" THEN root.synth ELSE root.expt
       IN  IF sp.file <= n
           THEN \E ok \in BOOLEAN :
                  sp' = LET s == [sp EXCEPT !.file = @ + 1,
                                           !.expt_scraped[sp.root] = @ + 1]
                        IN  IF ~ok THEN s
                            ELSE IF Commits(s)
                            THEN SpEnds(s, "AttributeError")
                            ELSE [s EXCEPT !.parsed = @ + 1]
           ELSE sp' = IF sp.kind = "synth"
                      THEN [sp EXCEPT !.kind = "expt", !.file = 1]
                      ELSE [sp EXCEPT !.pc = "index"]
    /\ UNCHANGED not_sp

\* what list_indexes can yield: nothing, the index on _id, or more
ListedIndexes == {0, 1, 2}

\* lines 90-107
BuildIndex ==
    /\ sp.pc = "index"
    /\ \E listed \in ListedIndexes :
         sp' = LET s == [sp EXCEPT !.pc = "report"]
               IN  IF sp.dryrun THEN s
                   ELSE IF listed - 1 > 0
                   THEN [s EXCEPT !.db_ops = @ \o <<"list_indexes", "reindex">>]
                   ELSE [s EXCEPT !.db_ops = @ \o <<"list_indexes",
                            "create_index", "create_index",
                            "create_index", "create_index">>]
    /\ UNCHANGED not_sp

\* lines 108-138
WriteReport ==
    /\ sp.pc = "report"
    /\ sp' = LET s == SpEnds(sp, "returned")
             IN  IF ~sp.dryrun
                 THEN [s EXCEPT !.db_ops = Append(@, "insert_report")]
                 ELSE s
    /\ UNCHANGED not_sp

SpNew(dryrun, tree, corpus) ==
    [pc |-> "new", dryrun |-> dryrun, tree |-> tree, corpus |-> corpus,
     root |-> 0, kind |-> "none", file |-> 0, logfile |-> "none",
     connected |-> FALSE, repo |-> {}, import_count |-> 0,
     db_ops |-> <<>>, parsed |-> 0, result |-> "running",
     expt_scraped |-> [i \in 1..Len(tree) |-> 0]]

\* the roots a walk can find
Roots ==
    { [res |-> r, castep |-> c, cell |-> l, synth |-> s, expt |-> e] :
        r \in {0, 1}, c \in {0, 1}, l \in {0, 2}, s \in {0, 1}, e \in {0, 1} }

Trees == UNION { [1..n -> {root \in Roots : root.res > 0 \/ root.cell = 0}] :
                 n \in 1..MaxRoots }

NoPot == [stoichiometry |-> <<"A">>, has_pot |-> FALSE, species_pot |-> <<>>]

\* injective sequences of elements, of length 1..MaxElems
StoichiometriesOf(elems) ==
    UNION { {q \in [1..n -> elems] : \A i, j \in 1..n : q[i] = q[j] => i = j} :
            n \in 1..MaxElems }

\* every structure over SpElements: with no species_pot, or with one for
\* some of the elements
Structs ==
    { [stoichiometry |-> q, has_pot |-> FALSE, species_pot |-> <<>>] :
        q \in StoichiometriesOf(SpElements) }
    \cup
    UNION { { [stoichiometry |-> q, has_pot |-> TRUE, species_pot |-> f] :
                q \in StoichiometriesOf(SpElements), f \in [d -> Pots] } :
            d \in SUBSET SpElements }

\* a few of them
ImportCorpus ==
    { NoPot,
      [stoichiometry |-> <<"A">>, has_pot |-> TRUE,
       species_pot |-> [e \in {"A"} |-> PotOtfLower]] }

OthersIdleForSp ==
    /\ BatchInit(1, NoLimit, FALSE, FALSE, {1})
    /\ rx = RxIdle
    /\ rf = Idle /\ fold = Idle /\ hl = Idle

ImportInit ==
    /\ OthersIdleForSp
    /\ \E dryrun \in BOOLEAN, tree \in Trees :
          sp = SpNew(dryrun, tree, ImportCorpus)

\* one castep file holding any structure, imported for real
QualityInit ==
    /\ OthersIdleForSp
    /\ \E struct \in Structs :
          sp = SpNew(FALSE,
                     <<[res |-> 0, castep |-> 1, cell |-> 0,
                        synth |-> 0, expt |-> 0]>>,
                     {struct})

SpNext ==
    \/ SpOpen
    \/ ImportFile
    \/ NextRoot
    \/ ImportExpt
    \/ BuildIndex
    \/ WriteReport

SpecImport == ImportInit /\ [][SpNext]_vars

SpecQuality == QualityInit /\ [][SpNext]_vars

(***************************************************************************)
(* Part E.  reset_job_folder (batch.py:375-418), run alone in a folder     *)
(* left by earlier runs, and the workers of a BatchRun started after it.   *)
(* fold is a record:                                                       *)
(*   kill_files      seeds whose <seed>.kill exists                        *)
(*   jobs_exists     jobs.txt exists when reset_job_folder is called       *)
(*   jobs_before     jobs.txt as it was then                               *)
(*   num_remaining   the value returned                                    *)
(***************************************************************************)
MaxLedger == 2         \* lines of jobs.txt before the reset

AllSeeds == 1..NumSeeds

\* str.strip() on a ledger line
Strip(line) ==
    IF line # <<>> /\ line[Len(line)] = "\n"
    THEN SubSeq(line, 1, Len(line) - 1) ELSE line

\* lines 401-414: what is written back, from line i on: every stripped line
\* that is not the name of a current res file, with nothing in between
RECURSIVE Rewritten(_, _, _)
Rewritten(flines, res_list, i) ==
    IF i > Len(flines) THEN <<>>
    ELSE (IF Strip(flines[i]) \in res_list THEN <<>> ELSE Strip(flines[i]))
            \o Rewritten(flines, res_list, i + 1)

\* file.readlines() of a text without a line break
AsLines(text) == IF text = <<>> THEN <<>> ELSE <<text>>

ResetJobFolder ==
    /\ spawn_pc = "reset"
    /\ spawn_pc' = "start"
    /\ LET res_list == {ResFile(n) : n \in res_files}
       IN  /\ lock_files' = lock_files \ res_files
           /\ jobs_txt' = IF fold.jobs_exists
                          THEN AsLines(Rewritten(jobs_txt, res_list, 1))
                          ELSE jobs_txt
           /\ fold' = [fold EXCEPT !.kill_files = @ \ res_files,
                                   !.jobs_before = jobs_txt,
                                   !.num_remaining = Cardinality(res_list)]
    /\ UNCHANGED <<config_vars, n_collected, errors, raised, joined,
                   ledger_vars, worker_vars, history_vars, pc, error_queue,
                   rx, rf, sp, hl>>

\* ledgers of earlier runs: one line per seed started, no seed twice
Ledgers ==
    UNION { {q \in [1..n -> AllSeeds] : \A i, j \in 1..n : q[i] = q[j] => i = j} :
            n \in 0..MaxLedger }

ResetInit ==
    /\ \E files \in SUBSET AllSeeds, locks \in SUBSET AllSeeds,
          kills \in SUBSET AllSeeds, ledger \in Ledgers, exists \in BOOLEAN :
          /\ files # {}
          /\ Cardinality(files) <= MaxVisits
          /\ ~exists => ledger = <<>>
          /\ BatchInitIn(1, NoLimit, FALSE, FALSE, files, locks,
                         [i \in DOMAIN ledger |-> Line(ledger[i])], "reset")
          /\ fold = [pc |-> "folder", kill_files |-> kills,
                     jobs_exists |-> exists, jobs_before |-> <<>>,
                     num_remaining |-> 0]
    /\ rx = RxIdle
    /\ rf = Idle /\ sp = Idle /\ hl = Idle

\* the reset (the parent is at "reset" until it is done), then spawn()
ResetNext ==
    \/ ResetJobFolder
    \/ Next

SpecReset == ResetInit /\ [][ResetNext]_vars

(***************************************************************************)
(* Part F.  QueryConvexHull (src/matador/hull.py): get_chempots and        *)
(* hull_2d for a binary system of the elements A and B, A being the first  *)
(* (its atomic fraction is the concentration).  hl is a record:            *)
(*   from_cursor     the hull is made from a cursor, not from a query      *)
(*   chem_pots       explicit chemical-potential energies <<mu_A, mu_B>>,  *)
(*                   or <<>> for None                                      *)
(*   found           the elemental documents there are: in the cursor      *)
(*                   (from_cursor) or in the database (query)              *)
(*   docs            the documents, by identity; cursor and match hold     *)
(*                   identities, so that one document reached through      *)
(*                   both is one document                                  *)
(*   cursor, match   self.cursor, self.match                               *)
(*   ind             the index of the annotating loop                      *)
(*   vertices        positions in the cursor of the hull's vertices        *)
(*   hull_cursor     self.hull_cursor                                      *)
(*   result          "running", "returned", "RuntimeError" or "exit"       *)
(* Concentrations are in twelfths and energies in twelfths of 0.01 eV, so  *)
(* that a formation energy is an integer; a quotient is a pair <<n, d>>    *)
(* with d > 0, and <<0, 0>> stands for a field not set.                    *)
(***************************************************************************)
MaxCompounds == 3      \* compounds in the cursor

conc_unit == 12
no_b_enthalpy == 1234500000

Unset == <<0, 0>>
Quot(n, d) == IF d < 0 THEN <<0 - n, 0 - d>> ELSE <<n, d>>
QEq(p, q) == p[2] # 0 /\ q[2] # 0 /\ p[1] * q[2] = q[1] * p[2]
QLeq(p, q) == p[1] * q[2] <= q[1] * p[2]

\* reduced stoichiometries <<count of A, count of B>> of the compounds
CompoundStoichs == {<<1, 3>>, <<1, 2>>, <<1, 1>>, <<2, 1>>, <<3, 1>>}

ChempotEnergies == {-24, 0}
FormationEnergies == {-120, -60, 24}

\* get_concentration(doc, elements): the fraction of A
Concentration(doc) == (conc_unit * doc.a) \div (doc.a + doc.b)

\* get_formation_energy(chempots, doc): the enthalpy per atom less the
\* chemical potentials weighted by the composition
FormationEnergy(mu, doc) ==
    doc.enthalpy_per_atom
        - (Concentration(doc) * mu[1].enthalpy_per_atom
             + (conc_unit - Concentration(doc)) * mu[2].enthalpy_per_atom)
          \div conc_unit

Doc(a, b, num_fu, epa) ==
    [a |-> a, b |-> b, num_fu |-> num_fu, enthalpy_per_atom |-> epa,
     enthalpy |-> epa * (a + b) * num_fu,
     hull_distance |-> Unset, enthalpy_per_b |-> Unset,
     formation |-> 0, concentration |-> 0, annotated |-> FALSE]

\* a chemical-potential record as get_chempots and fake_chempots leave it
Tagged(doc) ==
    [doc EXCEPT !.hull_distance = <<0, 1>>,
                !.enthalpy_per_b = <<doc.enthalpy_per_atom, 1>>]

HlEnds(h, v) == [h EXCEPT !.pc = "done", !.result = v]

\* ids of the elemental documents of element A (which = 1) or B (which = 2)
\* in the cursor, in the order of the cursor
ElementalIn(h, which) ==
    SelectSeq(h.cursor,
              LAMBDA id : IF which = 1 THEN h.docs[id].b = 0
                          ELSE h.docs[id].a = 0)

\* the first document of lowest enthalpy per atom among ids (a stable sort)
Lowest(h, ids) ==
    LET low(i) == \A j \in 1..Len(ids) :
                     h.docs[ids[i]].enthalpy_per_atom
                         <= h.docs[ids[j]].enthalpy_per_atom
    IN  ids[CHOOSE i \in 1..Len(ids) :
                low(i) /\ \A j \in 1..(i - 1) : ~low(j)]

\* get_chempots (lines 191-279)
GetChempots ==
    /\ hl.pc = "chempots"
    /\ LET n == Cardinality(DOMAIN hl.docs)
           insert(h, m1, m2) ==          \* lines 275-278
               IF h.from_cursor THEN h
               ELSE [h EXCEPT !.cursor = <<m1>> \o @ \o <<m2>>]
       IN  hl' =
             IF hl.chem_pots # <<>>
             THEN \* fake_chempots: two new documents
                  LET d1 == Tagged(Doc(1, 0, 1, hl.chem_pots[1]))
                      d2 == Tagged(Doc(0, 1, 1, hl.chem_pots[2]))
                      h == [hl EXCEPT
                              !.docs = [id \in 1..(n + 2) |->
                                          IF id <= n THEN hl.docs[id]
                                          ELSE IF id = n + 1 THEN d1 ELSE d2],
                              !.match = <<n + 1, n + 2>>,
                              !.pc = "annotate", !.ind = 1]
                  IN  insert(h, n + 1, n + 2)
             ELSE IF hl.from_cursor
             THEN \* the lowest elemental documents of the cursor (one each)
                  IF ElementalIn(hl, 1) = <<>> \/ ElementalIn(hl, 2) = <<>>
                  THEN HlEnds(hl, "RuntimeError")
                  ELSE LET m1 == Lowest(hl, ElementalIn(hl, 1))
                           m2 == Lowest(hl, ElementalIn(hl, 2))
                       IN  [hl EXCEPT
                              !.docs = [@ EXCEPT ![m1] = Tagged(@),
                                                 ![m2] = Tagged(@)],
                              !.match = <<m1, m2>>,
                              !.pc = "annotate", !.ind = 1]
             ELSE \* the lowest documents the database has for A and for B
                  IF ~hl.found THEN HlEnds(hl, "exit")
                  ELSE LET d1 == Tagged(Doc(1, 0, 2, hl.mu[1]))
                           d2 == Tagged(Doc(0, 1, 2, hl.mu[2]))
                           h == [hl EXCEPT
                                   !.docs = [id \in 1..(n + 2) |->
                                               IF id <= n THEN hl.docs[id]
                                               ELSE IF id = n + 1 THEN d1 ELSE d2],
                                   !.match = <<n + 1, n + 2>>,
                                   !.pc = "annotate", !.ind = 1]
                       IN  insert(h, n + 1, n + 2)
    /\ UNCHANGED not_hl

\* hull_2d, lines 430-448, for the document at index ind of the cursor
Annotate ==
    /\ hl.pc = "annotate"
    /\ hl.ind <= Len(hl.cursor)
    /\ LET id == hl.cursor[hl.ind]
           doc == hl.docs[id]
           num_b == doc.b
           mu == <<hl.docs[hl.match[1]], hl.docs[hl.match[2]]>>
       IN  hl' = [hl EXCEPT
                    !.docs[id] =
                        [doc EXCEPT
                           !.enthalpy_per_b =
                               IF num_b = 0 THEN <<no_b_enthalpy, 1>>
                               ELSE Quot(doc.enthalpy, num_b * doc.num_fu),
                           !.formation = FormationEnergy(mu, doc),
                           !.concentration = Concentration(doc),
                           !.annotated = TRUE],
                    !.ind = @ + 1]
    /\ UNCHANGED not_hl

\* the point of the document at position i of the cursor
PointX(h, i) == h.docs[h.cursor[i]].concentration
PointE(h, i) == h.docs[h.cursor[i]].formation

\* structure_slice: the positions whose formation energy is not above 0
StructureSlice(h) == {i \in 1..Len(h.cursor) : PointE(h, i) <= 0}

Cross(h, o, p, q) ==
    (PointX(h, p) - PointX(h, o)) * (PointE(h, q) - PointE(h, o))
        - (PointE(h, p) - PointE(h, o)) * (PointX(h, q) - PointX(h, o))

\* p lies on the closed segment from q to r
OnSegment(h, p, q, r) ==
    /\ Cross(h, q, r, p) = 0
    /\ (PointX(h, p) - PointX(h, q)) * (PointX(h, p) - PointX(h, r))
         + (PointE(h, p) - PointE(h, q)) * (PointE(h, p) - PointE(h, r)) <= 0

\* p lies in the closed triangle q, r, s, which is not flat
InTriangle(h, p, q, r, s) ==
    /\ Cross(h, q, r, s) # 0
    /\ \/ /\ Cross(h, q, r, p) >= 0
          /\ Cross(h, r, s, p) >= 0
          /\ Cross(h, s, q, p) >= 0
       \/ /\ Cross(h, q, r, p) <= 0
          /\ Cross(h, r, s, p) <= 0
          /\ Cross(h, s, q, p) <= 0

\* ConvexHull(structure_slice).vertices: the extreme points of the slice;
\* this variant also keeps a point inside a triangle of the others
ConvexHullVertices_NoInterior(h, slice) ==
    {p \in slice :
        ~\E q \in slice \ {p}, r \in slice \ {p} :
            q # r /\ OnSegment(h, p, q, r)}

ConvexHullVertices(h, slice) ==
    {p \in slice :
        /\ ~\E q \in slice \ {p}, r \in slice \ {p} :
              q # r /\ OnSegment(h, p, q, r)
        /\ ~\E q \in slice \ {p}, r \in slice \ {p}, s \in slice \ {p} :
              InTriangle(h, p, q, r, s)}

\* the vertices sorted by concentration (np.argsort)
RECURSIVE TieLine(_, _)
TieLine(h, vs) ==
    IF vs = {} THEN <<>>
    ELSE LET v == CHOOSE v \in vs : \A w \in vs : PointX(h, v) <= PointX(h, w)
         IN  <<v>> \o TieLine(h, vs \ {v})

\* bisect_left(tie_line_comp, x), counted from 1
BisectLeft(h, tie, x) ==
    1 + Cardinality({j \in 1..Len(tie) : PointX(h, tie[j]) < x})

\* vertices2line and the offset of the point (x, e) from that line: the
\* gradient is (e2 - e1) / (x2 - x1), the intercept e1 - gradient * x1
LineOffset(h, v1, v2, x, e) ==
    Quot((e - PointE(h, v1)) * (PointX(h, v2) - PointX(h, v1))
             - (PointE(h, v2) - PointE(h, v1)) * (x - PointX(h, v1)),
         PointX(h, v2) - PointX(h, v1))

\* get_hull_distances (lines 338-355) for the structure at position ind;
\* tie_line_comp[i-1] with i = 0 is the last entry of the tie line
HullDistance(h, slice, tie, ind) ==
    IF Cardinality(slice) = 2 THEN <<PointE(h, ind), 1>>
    ELSE LET i == BisectLeft(h, tie, PointX(h, ind))
             before == IF i = 1 THEN Len(tie) ELSE i - 1
         IN  LineOffset(h, tie[before], tie[i], PointX(h, ind), PointE(h, ind))

\* lines 508-515: with the summary flag, the first document of each formula
\* in the order of the list
RECURSIVE Summarised(_, _, _)
Summarised(h, ids, seen) ==
    IF ids = <<>> THEN <<>>
    ELSE LET formula == <<h.docs[Head(ids)].a, h.docs[Head(ids)].b>>
         IN  IF formula \in seen THEN Summarised(h, Tail(ids), seen)
             ELSE <<Head(ids)>> \o Summarised(h, Tail(ids), seen \cup {formula})

\* line 518: sorted(..., key=lambda k: k['concentration']), a stable sort
RECURSIVE SortedByConcentration(_, _)
SortedByConcentration(h, ids) ==
    IF ids = <<>> THEN <<>>
    ELSE LET conc(i) == h.docs[ids[i]].concentration
             first == CHOOSE i \in 1..Len(ids) :
                         /\ \A j \in 1..Len(ids) : conc(i) <= conc(j)
                         /\ \A j \in 1..(i - 1) : conc(j) > conc(i)
         IN  <<ids[first]>> \o
                 SortedByConcentration(h,
                     [j \in 1..(Len(ids) - 1) |->
                         IF j < first THEN ids[j] ELSE ids[j + 1]])

\* hull_2d, lines 449-520: the slice, the hull, the distances written back
\* to every document of the cursor, and the hull cursor
HullConstruct ==
    /\ hl.pc = "annotate"
    /\ hl.ind > Len(hl.cursor)
    /\ LET slice == StructureSlice(hl)
           vs == IF Cardinality(slice) <= 2 THEN slice
                 ELSE ConvexHullVertices(hl, slice)
           tie == TieLine(hl, vs)
           dist == [i \in 1..Len(hl.cursor) |-> HullDistance(hl, slice, tie, i)]
           by_id(id) == dist[CHOOSE i \in 1..Len(hl.cursor) :
                               /\ hl.cursor[i] = id
                               /\ \A j \in (i + 1)..Len(hl.cursor) :
                                     hl.cursor[j] # id]
           in_cursor == {hl.cursor[i] : i \in 1..Len(hl.cursor)}
       IN  hl' = [hl EXCEPT
                    !.docs = [id \in DOMAIN hl.docs |->
                                IF id \in in_cursor
                                THEN [hl.docs[id] EXCEPT
                                        !.hull_distance = by_id(id)]
                                ELSE hl.docs[id]],
                    !.vertices = vs,
                    !.hull_cursor =
                        LET within == SelectSeq([i \in 1..Len(hl.cursor) |-> i],
                                          LAMBDA j :
                                             QLeq(dist[j], <<hl.hull_cutoff, 1>>))
                            ids == [k \in 1..Len(within) |-> hl.cursor[within[k]]]
                        IN  SortedByConcentration(hl,
                                IF hl.summary THEN Summarised(hl, ids, {})
                                ELSE ids),
                    !.pc = "done", !.result = "returned"]
    /\ UNCHANGED not_hl

\* QueryConvexHull.__init__ (lines 32-131) up to the call of hull_2d
HlNew(from_cursor, chem_pots, found, mu, compounds) ==
    LET elemental == IF from_cursor /\ found
                     THEN <<Doc(1, 0, 2, mu[1]), Doc(0, 1, 2, mu[2])>>
                     ELSE <<>>
        all == elemental \o compounds
    IN  [pc |-> "chempots", result |-> "running",
         from_cursor |-> from_cursor, chem_pots |-> chem_pots,
         found |-> found, mu |-> mu,
         docs |-> [id \in 1..Len(all) |-> all[id]],
         cursor |-> [i \in 1..Len(all) |-> i],
         match |-> <<>>, ind |-> 0, vertices |-> {}, hull_cursor |-> <<>>,
         summary |-> FALSE, hull_cutoff |-> 0]

\* a compound of stoichiometry st whose formation energy against mu is f
Compound(st, mu, f) ==
    LET x == (conc_unit * st[1]) \div (st[1] + st[2])
    IN  Doc(st[1], st[2], 1,
            f + (x * mu[1] + (conc_unit - x) * mu[2]) \div conc_unit)

\* sequences of up to MaxCompounds compounds of increasing concentration
CompoundLists(mu) ==
    LET conc(st) == (conc_unit * st[1]) \div (st[1] + st[2])
    IN  UNION {{[i \in 1..n |-> Compound(sts[i], mu, fs[i])] :
                   sts \in {q \in [1..n -> CompoundStoichs] :
                              \A i \in 1..(n - 1) : conc(q[i]) < conc(q[i + 1])},
                   fs \in [1..n -> FormationEnergies]} :
               n \in 1..MaxCompounds}

OthersIdleForHl ==
    /\ BatchInit(1, NoLimit, FALSE, FALSE, {1})
    /\ rx = RxIdle
    /\ rf = Idle /\ sp = Idle /\ fold = Idle

HullInit ==
    /\ OthersIdleForHl
    /\ \E from_cursor \in BOOLEAN, found \in BOOLEAN, explicit \in BOOLEAN,
          mu \in ChempotEnergies \X ChempotEnergies :
          \E compounds \in CompoundLists(mu) :
             /\ (from_cursor /\ explicit) => found
             /\ hl = HlNew(from_cursor, IF explicit THEN mu ELSE <<>>,
                           found, mu, compounds)

HullNext == GetChempots \/ Annotate \/ HullConstruct

\* a hull from a cursor in any order, in which documents can share a
\* formula, with the summary flag and a cutoff (lines 72-77)
SummaryStoichs == {<<1, 3>>, <<1, 1>>}
HullCutoffs == {0, 60}

SummaryInit ==
    /\ OthersIdleForHl
    /\ \E summary \in BOOLEAN, cutoff \in HullCutoffs, n \in 1..MaxCompounds :
          \E sts \in [1..n -> SummaryStoichs], fs \in [1..n -> FormationEnergies] :
             /\ \A i \in 1..n, j \in 1..n :
                   (sts[i] = sts[j] /\ fs[i] = fs[j]) => i = j
             /\ hl = [HlNew(TRUE, <<>>, TRUE, <<0, 0>>,
                            [i \in 1..n |-> Compound(sts[i], <<0, 0>>, fs[i])])
                         EXCEPT !.summary = summary, !.hull_cutoff = cutoff]

SpecSummary == SummaryInit /\ [][HullNext]_vars

SpecHull == HullInit /\ [][HullNext]_vars

(***************************************************************************)
(* Part G.  The k-point spacing of a grid: calc_mp_spacing                 *)
(* (src/src/utils/cell_utils.py:123-135) and the estimate files2db makes   *)
(* for a structure that has a grid and no spacing                          *)
(* (src/src/scrapers/spatula.py:259-274).  The lattice is orthorhombic,    *)
(* with its lengths in tenths of an Angstrom, so that the length of a      *)
(* reciprocal vector over 2 pi is 10 / length exactly.  A spacing is a     *)
(* quotient <<n, d>>; a rounded spacing is a whole number of hundredths.   *)
(* sp is a record:                                                         *)
(*   lattice, grid   the three lengths and the three grid dimensions       *)
(*   mp_spacing      what calc_mp_spacing returned, -1 before the call     *)
(*   kpoints_mp_spacing  what files2db stored, -1 before                   *)
(***************************************************************************)
MaxGrid == 4           \* grid dimensions 1..MaxGrid

sqrt10 == 3162278      \* the square root of 10, in millionths

LatticeLengths == {20, 50, 104}

\* spacing on axis j: recip_len[j] / (2*pi*mp_grid[j])
AxisSpacing(lattice, grid, j) == <<10, lattice[j] * grid[j]>>

QMax(p, q) == IF p[1] * q[2] > q[1] * p[2] THEN p ELSE q

\* the largest spacing over the three axes
MaxSpacing(lattice, grid) ==
    QMax(QMax(AxisSpacing(lattice, grid, 1), AxisSpacing(lattice, grid, 2)),
         AxisSpacing(lattice, grid, 3))

\* round(log10(x) - 1) for 1/1000 < x < 3: the exponent is e when
\* 10^(e + 1/2) <= x < 10^(e + 3/2)
Exponent(x) ==
    IF x[1] * 10000000 >= sqrt10 * x[2] THEN -1
    ELSE IF x[1] * 100000000 >= sqrt10 * x[2] THEN -2
    ELSE IF x[1] * 100000000 >= (sqrt10 \div 10) * x[2] THEN -3
    ELSE -4

\* 0.5 * 10**exponent, in hundred-thousandths
HalfStep(e) ==
    IF e = -1 THEN 5000 ELSE IF e = -2 THEN 500 ELSE IF e = -3 THEN 50 ELSE 5

\* the whole number nearest to n / d, a half going to the even one
RoundHalfEven(n, d) ==
    LET low == n \div d
        rest == 2 * (n - low * d)
    IN  IF rest > d THEN low + 1
        ELSE IF rest < d THEN low
        ELSE IF low % 2 = 0 THEN low ELSE low + 1

RoundedUp(x) ==
    RoundHalfEven(100000 * x[1] + HalfStep(Exponent(x)) * x[2], 1000 * x[2])

\* calc_mp_spacing(real_lat, mp_grid, prec=2)
calc_mp_spacing(lattice, grid) == RoundedUp(MaxSpacing(lattice, grid))

CalcMpSpacing ==
    /\ sp.pc = "spacing"
    /\ sp.mp_spacing = -1
    /\ sp' = [sp EXCEPT !.mp_spacing = calc_mp_spacing(sp.lattice, sp.grid)]
    /\ UNCHANGED not_sp

\* files2db, lines 259-274: in the first turn of the loop over the axes only
\* recip_abc[0] is set when the spacings of the three axes are compared, and
\* the later turns find kpoints_mp_spacing already there
BackEstimate ==
    /\ sp.pc = "spacing"
    /\ sp.kpoints_mp_spacing = -1
    /\ LET recip_abc == <<AxisSpacing(sp.lattice, sp.grid, 1), <<0, 1>>, <<0, 1>>>>
           max_spacing == QMax(QMax(recip_abc[1], recip_abc[2]), recip_abc[3])
       IN  sp' = [sp EXCEPT !.kpoints_mp_spacing = RoundedUp(max_spacing)]
    /\ UNCHANGED not_sp

SpacingInit ==
    /\ OthersIdleForSp
    /\ \E lattice \in [1..3 -> LatticeLengths], grid \in [1..3 -> 1..MaxGrid] :
          sp = [pc |-> "spacing", lattice |-> lattice, grid |-> grid,
                mp_spacing |-> -1, kpoints_mp_spacing |-> -1]

SpacingNext == CalcMpSpacing \/ BackEstimate

SpecSpacing == SpacingInit /\ [][SpacingNext]_vars

(***************************************************************************)
(* Part H.  BatchRun.__init__ (src/matador/compute/batch.py:55-154): the   *)
(* counts of nodes, cores and worker processes, then the ledger files;     *)
(* spawn() can follow only a constructor that returned.  fold is a record: *)
(*   nnodes, nprocesses   the keyword arguments                            *)
(*   ncores_given, ncores the keyword argument ncores, if not None         *)
(*   slurm_given, slurm_avail_tasks   SLURM_NTASKS, if set                 *)
(*   all_cores            mp.cpu_count()                                   *)
(*   memcheck             the keyword argument                             *)
(*   files                the ledger files in the folder                   *)
(*   created              the ledger files this constructor created        *)
(*   spawned              spawn() has started the workers                  *)
(*   result               "running", "constructed", "SystemExit" or        *)
(*                        "ZeroDivisionError"                              *)
(***************************************************************************)
MaxCount == 2          \* counts given range over -1..MaxCount
MaxCores == 3          \* cores of the machine, tasks of the allocation

LedgerFiles ==
    {"jobs.txt", "finished_cleanly.txt", "failures.txt", "memory_exceeded.txt"}

\* int(a / b) for b # 0: the quotient cut towards 0
IntOfQuotient(a, b) ==
    LET abs(x) == IF x < 0 THEN 0 - x ELSE x
        q == abs(a) \div abs(b)
    IN  IF (a < 0) = (b < 0) THEN q ELSE 0 - q

\* the check of line 121
InvalidCounts(nnodes, ncores, np) == nnodes < 1 \/ ncores < 1 \/ np < 1

SetupEnds(f, v) == [f EXCEPT !.pc = "done", !.result = v]

\* lines 88-122
AssignCores ==
    /\ fold.pc = "new"
    /\ LET avail == IF fold.slurm_given THEN fold.slurm_avail_tasks
                    ELSE fold.all_cores
       IN  fold' =
             IF ~fold.ncores_given /\ fold.nprocesses = 0
             THEN SetupEnds(fold, "ZeroDivisionError")
             ELSE LET ncores == IF fold.ncores_given THEN fold.ncores
                                ELSE IntOfQuotient(avail, fold.nprocesses)
                  IN  IF InvalidCounts(fold.nnodes, ncores, fold.nprocesses)
                      THEN SetupEnds(fold, "SystemExit")
                      ELSE [fold EXCEPT !.ncores = ncores, !.pc = "ledgers"]
    /\ UNCHANGED <<batch_vars, rx, rf, sp, hl>>

\* lines 124-154
CreateLedgers ==
    /\ fold.pc = "ledgers"
    /\ LET wanted == IF fold.memcheck THEN LedgerFiles
                     ELSE LedgerFiles \ {"memory_exceeded.txt"}
       IN  fold' = [fold EXCEPT !.created = wanted \ fold.files,
                                !.files = @ \cup wanted,
                                !.pc = "done", !.result = "constructed"]
    /\ UNCHANGED <<batch_vars, rx, rf, sp, hl>>

\* spawn() (lines 156-175) on the object the constructor returned
SpawnWorkers ==
    /\ fold.pc = "done"
    /\ fold.result = "constructed"
    /\ ~fold.spawned
    /\ fold' = [fold EXCEPT !.spawned = TRUE]
    /\ UNCHANGED <<batch_vars, rx, rf, sp, hl>>

SetupInit ==
    /\ BatchInit(1, NoLimit, FALSE, FALSE, {1})
    /\ rx = RxIdle
    /\ rf = Idle /\ sp = Idle /\ hl = Idle
    /\ \E nnodes \in -1..MaxCount, np \in -1..MaxCount,
          ncores_given \in BOOLEAN, ncores \in -1..MaxCount,
          slurm_given \in BOOLEAN, tasks \in 1..MaxCores,
          all_cores \in 1..MaxCores, memcheck \in BOOLEAN,
          files \in SUBSET {"jobs.txt", "failures.txt"} :
          /\ ~ncores_given => ncores = 0
          /\ ~slurm_given => tasks = 1
          /\ fold = [pc |-> "new", result |-> "running",
                     nnodes |-> nnodes, nprocesses |-> np,
                     ncores_given |-> ncores_given, ncores |-> ncores,
                     slurm_given |-> slurm_given, slurm_avail_tasks |-> tasks,
                     all_cores |-> all_cores, memcheck |-> memcheck,
                     files |-> files, created |-> {}, spawned |-> FALSE]

SetupNext == AssignCores \/ CreateLedgers \/ SpawnWorkers

SpecSetup == SetupInit /\ [][SetupNext]_vars

(***************************************************************************)
(* Properties of Part A.                                                   *)
(***************************************************************************)

ScenarioDone ==
    \A w \in Procs : pc[w] = "dead" /\ reported[w] # NoLimit

JobsNames == {jobs_txt[i] : i \in 1..Len(jobs_txt)}

C3_MemoryReleaseAsClaimed ==
    [][\A w \in Procs :
          (pc[w] = "strike" /\ pc'[w] # "strike") =>
              /\ memory_txt'[res[w]] > 0
              /\ res[w] \notin lock_files'
              /\ jobs_txt' = SelectSeq(jobs_txt, LAMBDA l : l # Line(res[w]))
              /\ ~CheckJobsFile(res[w], jobs_txt')
              /\ pc'[w] = "for_res"]_vars

\* C4 (as claimed): a worker that has ended, however it ended, has put
\* exactly one result on the queue.
C4_OneResultPerWorker ==
    \A w \in Procs : pc[w] = "dead" => results_put[w] = 1

ErrorKindsSeen == {errors[i].kind : i \in 1..Len(errors)}

C6_JobLimit ==
    limit # NoLimit =>
        \A w \in Procs :
            /\ job_count[w] <= limit
            /\ ~work_after_limit[w]
            /\ pc[w] \in {"write_lock", "write_jobs", "relaxer"} => job_count[w] < limit
            /\ hit_limit[w] => reported[w] = limit
            /\ reported[w] # NoLimit => reported[w] = job_count[w]

\* a worker stopped at the limit with candidates left in its list
C6_Witness ==
    \E w \in Procs :
        /\ limit >= 1
        /\ hit_limit[w]
        /\ reported[w] = limit
        /\ todo[w] # {}

(***************************************************************************)
(* Properties of Part B.                                                   *)
(***************************************************************************)

\* the call has ended by a return of the loop body or by the loop running
\* out, with no exception, no interrupt, no failed scrape and no crash marker
\* in its last sub-run
RelaxEndedPlainly ==
    /\ rx.mode = "relax"
    /\ rx.pc = "done"
    /\ ~rx.interrupted /\ ~rx.excepted /\ ~rx.parse_failed /\ ~rx.crashed

\* sub-run i reported optimised and was not itself a confirmation
FirstOptimised(i) == rx.optimiseds[i] /\ ~rx.reruns[i]

\* C7 (as claimed): wherever in the schedule a sub-run first reports
\* optimised, the next sub-run is a confirmation capped at 2 iterations, and
\* relax() does not end (crashes and exceptions apart) before it has run;
\* relax() returns True only after a confirmation that reported optimised.
C7_ConfirmationFollowsOptimised ==
    /\ \A i \in 1..Len(rx.optimiseds) :
          FirstOptimised(i) =>
              /\ i < Len(rx.num_iters) =>
                    rx.reruns[i + 1] /\ rx.num_iters[i + 1] = last_num_iter
              /\ RelaxEndedPlainly => i < Len(rx.num_iters)
    /\ (rx.mode = "relax" /\ rx.result = "True") =>
          LET n == Len(rx.optimiseds)
          IN  /\ n >= 2
              /\ rx.optimiseds[n] /\ rx.optimiseds[n - 1]
              /\ rx.reruns[n] /\ rx.num_iters[n] = last_num_iter

\* C8 (as claimed): a call whose last sub-run left a crash marker (and that
\* no interrupt and no exception touched) ends False with the files in
\* bad_castep/, never True and never with files in completed/.
C8_CrashMarkerEndsFalse ==
    (rx.pc = "done" /\ rx.crashed /\ ~rx.interrupted /\ ~rx.excepted) =>
        /\ rx.result = "False"
        /\ rx.bad # {}
        /\ rx.completed = {}

\* C9 (as claimed): an exception that reaches the handlers of relax() or
\* scf() has the files moved to bad_castep/, then the temporary files
\* removed, and the call returns False.
C9_ExceptionMovesThenTidies ==
    rx.excepted =>
        /\ rx.result = "False"
        /\ rx.log = <<"mv_to_bad", "tidy_up">>
        /\ rx.bad # {}
        /\ rx.cwd = {}

\* C10 (as claimed): once an interrupt has arrived in relax() or scf(), the
\* call has ended in SystemExit, the files were moved to bad_castep/ before
\* anything else was done to them, and no file of the seed is left in the
\* working directory; the call does not go on to a result.
C10_InterruptCleansThenExits ==
    rx.interrupted =>
        /\ rx.result = "SystemExit"
        /\ rx.log # <<>> /\ rx.log[1] = "mv_to_bad"
        /\ rx.bad # {}
        /\ rx.cwd = {}

\* C11 (as claimed): a call of relax() that has ended otherwise than by a
\* fatal exit or a cancellation has returned True with the result files in
\* completed/, or False with the files in bad_castep/; it has not returned
\* None and has left no file of the seed in the working directory.
C11_RelaxEndsTrueOrFalse ==
    (rx.mode = "relax" /\ rx.pc = "done" /\ rx.result # "SystemExit") =>
        /\ rx.cwd = {}
        /\ \/ rx.result = "True" /\ {"castep", "res"} \subseteq rx.completed
           \/ rx.result = "False" /\ rx.bad # {}

\* an element of the stoichiometry has no pseudopotential file
PseudoMissing ==
    \E i \in 1..Len(rx.stoichiometry) : rx.stoichiometry[i] \notin rx.pseudo_files

\* C12: when the pseudopotential file of an element of the stoichiometry is
\* missing, the constructor never gets into relax() or scf(): no param or
\* cell file is ever written, CASTEP is never run, nothing is copied or moved,
\* and (the res file having parsed) the constructor has ended by a fatal exit
\* as soon as it has run, whatever conv_cutoff, conv_kpt and task are.
C12_MissingPseudoIsFatal ==
    PseudoMissing =>
        /\ rx.pc \in {"new", "done"}
        /\ rx.scf_calls = 0 /\ rx.relax_calls = 0
        /\ rx.cwd = {"res"} /\ rx.bad = {} /\ rx.completed = {}
        /\ ~rx.input /\ rx.num_iters = <<>> /\ rx.log = <<>>
        /\ (rx.pc = "done" /\ rx.res_ok) => rx.result = "SystemExit"

\* a k-point sweep for a structure whose second element lacks its file has
\* been refused
C12_Witness ==
    /\ rx.pc = "done" /\ rx.result = "SystemExit"
    /\ Len(rx.stoichiometry) = 2
    /\ rx.stoichiometry[1] \in rx.pseudo_files
    /\ rx.stoichiometry[2] \notin rx.pseudo_files
    /\ RunMode(rx) = "conv_kpt"

(***************************************************************************)
(* Properties of Part C.                                                   *)
(***************************************************************************)

\* a step of the Refiner (the other process's steps count in other_writes)
RefinerStep == rf'.other_writes = rf.other_writes

\* C13: the Refiner's commit depends on its mode.  Unless the mode is set or
\* overwrite, no step of the Refiner changes the collection and no request
\* is ever built.  In set mode a step of the Refiner leaves every document
\* whose field is not absent at that moment as it is.  In overwrite mode the
\* request applied by a step leaves its document with the recomputed value
\* whatever it held, and a run that has returned has applied one request for
\* every changed document.  A step touches no document but its request's.
C13_CommitByMode ==
    /\ [][RefinerStep =>
            /\ rf.mode \notin {"set", "overwrite"} => rf'.stored = rf.stored
            /\ rf.mode = "set" =>
                  \A d \in DOMAIN rf.stored :
                      rf.stored[d] # "absent" => rf'.stored[d] = rf.stored[d]
            /\ (rf.mode = "overwrite" /\ rf.pc = "bulk_write") =>
                  rf'.stored[rf.requests[rf.next_req].id] = "new"
            /\ rf.pc = "bulk_write" =>
                  \A d \in DOMAIN rf.stored :
                      d # rf.requests[rf.next_req].id =>
                          rf'.stored[d] = rf.stored[d]
            /\ rf.pc # "bulk_write" => rf'.stored = rf.stored]_vars
    /\ [](rf.mode \notin {"set", "overwrite"} =>
             rf.requests = <<>> /\ rf.modified = 0)
    /\ []((rf.mode = "overwrite" /\ rf.pc = "done"
              /\ rf.result = "returned") =>
             /\ Len(rf.requests) = Len(rf.diff_cursor)
             /\ rf.next_req = Len(rf.requests) + 1
             /\ \A i \in 1..Len(rf.requests) :
                   /\ rf.requests[i].id = rf.diff_cursor[i]
                   /\ ~rf.requests[i].absent_only)

\* a run in set mode has returned having modified nothing: the one document
\* it had found changed, without the field when read, was given a value by
\* the other process before the update was applied, and still holds it
C13_Witness ==
    /\ rf.pc = "done" /\ rf.result = "returned"
    /\ rf.mode = "set"
    /\ rf.diff_cursor = <<1>>
    /\ rf.snapshot[1] = "absent"
    /\ rf.stored[1] = "theirs"
    /\ rf.modified = 0

\* the arguments are outside what the constructor supports
RefinerBadArgs ==
    \/ rf.task \notin possible_tasks
    \/ rf.mode_arg \notin possible_modes
    \/ rf.mode_arg \in {"set", "overwrite"} /\ ~rf.collection

\* C14 (as claimed): with a task or mode name outside the supported sets, or
\* with mode set or overwrite and no collection, the constructor ends by a
\* fatal exit as soon as it runs: no document is analysed, displayed or
\* written.
C14_BadArgsAreFatal ==
    (RefinerBadArgs /\ rf.pc # "new") =>
        /\ rf.pc = "done" /\ rf.result = "SystemExit"
        /\ rf.analysed = 0 /\ rf.displayed = 0
        /\ rf.requests = <<>> /\ rf.modified = 0

(***************************************************************************)
(* Properties of Part D.                                                   *)
(***************************************************************************)

\* the strings that define a generic (on-the-fly) pseudopotential
GenericPots == {PotOtfLower, PotOtfUpper}

\* C15: every document committed by struct2db has quality 0 if it has no
\* species_pot or if an element of its stoichiometry, at any position, has
\* no entry in it; otherwise 5 minus the number of elements of the
\* stoichiometry whose pseudopotential is a generic one.
C15_QualityScore ==
    \A doc \in sp.repo :
        LET elems == {doc.stoichiometry[i] : i \in 1..Len(doc.stoichiometry)}
        IN  doc.quality =
              IF ~doc.has_pot \/ \E e \in elems : e \notin DOMAIN doc.species_pot
              THEN 0
              ELSE full_quality
                     - Cardinality({e \in elems : doc.species_pot[e] \in GenericPots})

\* a document was committed whose first element has a generic
\* pseudopotential and whose second element has none
C15_Witness ==
    \E doc \in sp.repo :
        /\ doc.has_pot
        /\ Len(doc.stoichiometry) = 2
        /\ doc.stoichiometry[1] \in DOMAIN doc.species_pot
        /\ doc.species_pot[doc.stoichiometry[1]] \in GenericPots
        /\ doc.stoichiometry[2] \notin DOMAIN doc.species_pot
        /\ doc.quality = 0

\* C16: in a dry run no operation is ever issued to the database: no
\* connection, no insertion, no index, no report; import_count stays 0.
C16_DryRunNoDatabase ==
    sp.dryrun =>
        /\ sp.db_ops = <<>>
        /\ ~sp.connected
        /\ sp.repo = {}
        /\ sp.import_count = 0

\* a dry run has ended after scraping two files with success
C16_Witness ==
    /\ sp.dryrun
    /\ sp.pc = "done" /\ sp.result = "returned"
    /\ sp.parsed >= 2

(***************************************************************************)
(* Properties of Part E.                                                   *)
(***************************************************************************)

\* reset_job_folder has returned and no worker has been started yet
AfterReset ==
    /\ fold.pc = "folder"
    /\ spawn_pc = "start"
    /\ \A w \in Procs : pc[w] = "idle"

\* C17 (as claimed): after reset_job_folder, no res file of the folder has a
\* lock file or a kill file, and a worker started then finds none of them
\* listed in jobs.txt.
C17_ReadyForRestart ==
    AfterReset =>
        \A n \in res_files :
            /\ n \notin lock_files
            /\ n \notin fold.kill_files
            /\ ~CheckJobsFile(n, jobs_txt)

\* the lines of flines from i on that name a current res file
RECURSIVE StillPresent(_, _, _)
StillPresent(flines, res_list, i) ==
    IF i > Len(flines) THEN <<>>
    ELSE (IF Strip(flines[i]) \in res_list THEN <<Strip(flines[i])>> ELSE <<>>)
            \o StillPresent(flines, res_list, i + 1)

\* C18 (as claimed): after reset_job_folder, jobs.txt holds exactly the
\* entries it held before that name a res file still in the folder, in the
\* same order, one per line.
C18_LedgerKeepsPresentEntries ==
    (AfterReset /\ fold.jobs_exists) =>
        [i \in DOMAIN jobs_txt |-> Strip(jobs_txt[i])]
            = StillPresent(fold.jobs_before,
                           {ResFile(n) : n \in res_files}, 1)


(***************************************************************************)
(* Properties of Part F.                                                   *)
(***************************************************************************)
HullReturned == hl.pc = "done" /\ hl.result = "returned"

\* positions in the cursor of the compounds and of the elemental documents
CompoundPositions ==
    SelectSeq([i \in 1..Len(hl.cursor) |-> i],
              LAMBDA i : hl.docs[hl.cursor[i]].a > 0 /\ hl.docs[hl.cursor[i]].b > 0)

ElementalPositions ==
    {i \in 1..Len(hl.cursor) :
        hl.docs[hl.cursor[i]].a = 0 \/ hl.docs[hl.cursor[i]].b = 0}

\* the data set of five points: two chemical potentials at formation energy
\* 0 and three compounds at -0.1, -0.05 and +0.02 eV in the order of their
\* concentrations (energies in twelfths of 0.01 eV)
FivePoint ==
    /\ HullReturned
    /\ Len(hl.cursor) = 5
    /\ Cardinality(ElementalPositions) = 2
    /\ \A i \in ElementalPositions : PointE(hl, i) = 0
    /\ Len(CompoundPositions) = 3
    /\ PointE(hl, CompoundPositions[1]) = -120
    /\ PointE(hl, CompoundPositions[2]) = -60
    /\ PointE(hl, CompoundPositions[3]) = 24
    /\ PointX(hl, CompoundPositions[1]) < PointX(hl, CompoundPositions[2])
    /\ PointX(hl, CompoundPositions[2]) < PointX(hl, CompoundPositions[3])

\* the -0.05 compound lies strictly above the straight line from the -0.1
\* compound to the chemical potential of concentration 1
MiddleIsInterior ==
    LET c1 == CompoundPositions[1]
        c2 == CompoundPositions[2]
    IN  (PointE(hl, c2) - PointE(hl, c1)) * (conc_unit - PointX(hl, c1))
            - (0 - PointE(hl, c1)) * (PointX(hl, c2) - PointX(hl, c1)) > 0

\* the vertical offset of the point at position i from the line joining the
\* nearest vertex of lower and the nearest of higher concentration
OffsetFromNeighbours(i) ==
    LET l == CHOOSE v \in hl.vertices :
                 /\ PointX(hl, v) < PointX(hl, i)
                 /\ \A w \in hl.vertices :
                       PointX(hl, w) < PointX(hl, i) => PointX(hl, w) <= PointX(hl, v)
        r == CHOOSE v \in hl.vertices :
                 /\ PointX(hl, v) > PointX(hl, i)
                 /\ \A w \in hl.vertices :
                       PointX(hl, w) > PointX(hl, i) => PointX(hl, w) >= PointX(hl, v)
    IN  <<(PointE(hl, i) - PointE(hl, l)) * (PointX(hl, r) - PointX(hl, l))
             - (PointE(hl, r) - PointE(hl, l)) * (PointX(hl, i) - PointX(hl, l)),
          PointX(hl, r) - PointX(hl, l)>>

FivePointOutcome ==
    LET c1 == CompoundPositions[1]
        c2 == CompoundPositions[2]
        c3 == CompoundPositions[3]
        dist(i) == hl.docs[hl.cursor[i]].hull_distance
    IN  /\ hl.vertices = ElementalPositions \cup {c1}
        /\ dist(c3)[2] > 0 /\ dist(c3)[1] > 0
        /\ dist(c2)[2] > 0 /\ dist(c2)[1] > 0
        /\ QEq(dist(c2), OffsetFromNeighbours(c2))

\* C19 (amended): for the data set of five points in which the -0.05
\* compound lies strictly above the line from the -0.1 compound to the
\* chemical potential of concentration 1, hull_2d makes exactly the two
\* chemical potentials and the -0.1 compound the vertices, gives the +0.02
\* compound a strictly positive hull distance, and gives the -0.05 compound a
\* positive hull distance equal to its vertical offset from the line joining
\* its two neighbouring vertices.
C19_FivePointHull == (FivePoint /\ MiddleIsInterior) => FivePointOutcome

C19_Witness ==
    /\ FivePoint
    /\ MiddleIsInterior
    /\ Cardinality(hl.vertices) = 3
    /\ hl.docs[hl.cursor[CompoundPositions[2]]].hull_distance[1] > 0

\* C19 (as claimed): the same outcome for every data set of five points with
\* these energies at increasing concentration, wherever the compounds lie.
C19_FivePointHullAsStated == FivePoint => FivePointOutcome

\* C20: from get_chempots on, during the construction and after it, every
\* chemical-potential record has hull_distance 0 and enthalpy_per_b equal to
\* its own enthalpy_per_atom, however the chemical potentials were resolved.
C20_ChempotRecordsKeepTags ==
    (hl.pc \in {"annotate", "done"} /\ hl.match # <<>>) =>
        \A k \in 1..Len(hl.match) :
            LET rec == hl.docs[hl.match[k]]
            IN  /\ QEq(rec.hull_distance, <<0, 1>>)
                /\ QEq(rec.enthalpy_per_b, <<rec.enthalpy_per_atom, 1>>)


(***************************************************************************)
(* Properties of Part G.                                                   *)
(***************************************************************************)
\* the rounded spacing r (in hundredths) is not below the spacing x
NotBelow(r, x) == r * x[2] >= 100 * x[1]

\* C21: for every lattice and grid, the spacing calc_mp_spacing returns and
\* the spacing files2db estimates are never smaller than the largest
\* spacing the grid has on the three axes.
C21_SpacingNeverFiner ==
    /\ sp.pc = "spacing" /\ sp.mp_spacing # -1
         => NotBelow(sp.mp_spacing, MaxSpacing(sp.lattice, sp.grid))
    /\ sp.pc = "spacing" /\ sp.kpoints_mp_spacing # -1
         => NotBelow(sp.kpoints_mp_spacing, MaxSpacing(sp.lattice, sp.grid))


(***************************************************************************)
(* Properties of Part H.                                                   *)
(***************************************************************************)
\* a count below 1: given, or derived as the cores there are over the
\* worker processes (a count that cannot be derived is no count of 1 or more)
CountBelowOne ==
    \/ fold.nnodes < 1
    \/ fold.nprocesses < 1
    \/ fold.ncores_given /\ fold.ncores < 1
    \/ /\ ~fold.ncores_given
       /\ fold.nprocesses > 0
       /\ IntOfQuotient(IF fold.slurm_given THEN fold.slurm_avail_tasks
                        ELSE fold.all_cores, fold.nprocesses) < 1

\* C22: a constructor given a count below 1 ends with the exit for invalid
\* counts, having created no ledger file, and no worker is ever spawned.
C22_InvalidCountsAreFatal ==
    (fold.pc \in {"ledgers", "done"} /\ CountBelowOne)
        => /\ fold.pc = "done"
           /\ fold.result = "SystemExit"
           /\ fold.created = {}
           /\ ~fold.spawned


(***************************************************************************)
(* Properties of the schedule and the spin of relax() (Part B).            *)
(***************************************************************************)
RelaxCalled == rx.pc # "new" /\ rx.mode = "relax" /\ rx.relax_calls > 0

C24_SpinOnlyInFirstSubRun ==
    (rx.pc # "new" /\ rx.mode = "relax") =>
        \A k \in 2..Len(rx.cell_spins) :
            ~rx.cell_spins[k].spin /\ ~rx.cell_spins[k].init_spins

C24_Witness ==
    /\ rx.mode = "relax"
    /\ Len(rx.cell_spins) >= 3
    /\ rx.cell_spins[1].spin /\ rx.cell_spins[1].init_spins
    /\ ~rx.cell_spins[2].spin /\ ~rx.cell_spins[2].init_spins


(***************************************************************************)
(* Properties of the synthesis and experiment records (Part D).            *)
(***************************************************************************)
\* files2db has come to its end, by its return or by an exception
Files2dbOver ==
    /\ sp.root > 0
    /\ sp.pc \in {"index", "report", "done"}

\* C25: when files2db is over, every synth and expt file of every root has
\* been given to its scraper once, and no record that parsed in a run that
\* commits was lost: each was handed to the database and counted.
C25_EveryRecordParsedOnce ==
    Files2dbOver =>
        /\ \A i \in 1..Len(sp.tree) :
              sp.expt_scraped[i] = sp.tree[i].synth + sp.tree[i].expt
        /\ sp.result # "AttributeError"


(***************************************************************************)
(* Properties of the hull cursor (Part F).                                 *)
(***************************************************************************)
\* the documents of the cursor within the cutoff of the hull
WithinCutoff ==
    {hl.cursor[i] : i \in {j \in 1..Len(hl.cursor) :
        QLeq(hl.docs[hl.cursor[j]].hull_distance, <<hl.hull_cutoff, 1>>)}}

FormulaOf(id) == <<hl.docs[id].a, hl.docs[id].b>>

\* C26: with the summary flag, whatever the order of the documents, the hull
\* cursor holds one document of each formula found within the cutoff, the
\* one of lowest energy, and is sorted by concentration.
C26_SummaryKeepsLowest ==
    (HullReturned /\ hl.summary) =>
        LET kept == {hl.hull_cursor[k] : k \in 1..Len(hl.hull_cursor)}
        IN  /\ kept \subseteq WithinCutoff
            /\ \A id \in WithinCutoff :
                  \E k \in 1..Len(hl.hull_cursor) :
                     /\ FormulaOf(hl.hull_cursor[k]) = FormulaOf(id)
                     /\ hl.docs[hl.hull_cursor[k]].enthalpy_per_atom
                            <= hl.docs[id].enthalpy_per_atom
            /\ \A k \in 1..Len(hl.hull_cursor), l \in 1..Len(hl.hull_cursor) :
                  /\ (k # l => FormulaOf(hl.hull_cursor[k]) # FormulaOf(hl.hull_cursor[l]))
                  /\ (k < l => hl.docs[hl.hull_cursor[k]].concentration
                                  <= hl.docs[hl.hull_cursor[l]].concentration)


(***************************************************************************)
(* Properties of the jobs ledger and of the order of a run (Part A).       *)
(***************************************************************************)
\* C27: a worker passes over a candidate it did not find locked only when
\* jobs.txt holds the line of exactly that seed, and the strike of a seed
\* leaves every line of the other seeds in jobs.txt, also for seeds whose
\* names contain one another.
C27_ExactSeedMatching ==
    [][\A w \in Procs :
          /\ (pc[w] = "check_jobs" /\ pc'[w] = "for_res" /\ ~locked[w])
                => Line(res[w]) \in JobsNames
          /\ (pc[w] = "strike" /\ pc'[w] # "strike")
                => SelectSeq(jobs_txt', LAMBDA l : l # Line(res[w]))
                      = SelectSeq(jobs_txt, LAMBDA l : l # Line(res[w]))]_vars

\* the entries of a seed in the three closing ledgers
LedgerEntries(n) == memory_txt[n] + completed_txt[n] + failures_txt[n]

\* the workers whose run of a seed has come back and is not yet recorded
AtRecord(n) == {w \in Procs : pc[w] = "record" /\ res[w] = n}

\* the workers between the append to jobs.txt and the closing ledger
InRun(n) == {w \in Procs : pc[w] \in {"relaxer", "record"} /\ res[w] = n}

\* the lock file of a seed has been created
LockCreated(n) == n \in lock_files \/ lock_removals[n] > 0

\* the order of a run, seen in a state: the Executor is invoked with the
\* lock created and the seed in jobs.txt, and the closing ledgers hold no
\* more entries of a seed than runs of it that have come back
RunOrder ==
    \A n \in res_files :
        /\ \A w \in InRun(n) : LockCreated(n) /\ Line(n) \in JobsNames
        /\ LedgerEntries(n) + Cardinality(AtRecord(n)) <= run_count[n]
        /\ LedgerEntries(n) > 0 => Line(n) \in JobsNames

\* the order of a run, seen in a step: the Executor is invoked from the
\* append to jobs.txt only, a run that has come back is written to exactly
\* one closing ledger, and nothing else writes to the closing ledgers
RunOrderStep ==
    /\ \A w \in Procs :
          /\ (pc'[w] = "relaxer" /\ pc[w] # "relaxer") => pc[w] = "write_jobs"
          /\ (pc'[w] = "write_jobs" /\ pc[w] # "write_jobs")
                => pc[w] = "write_lock"
          /\ (pc[w] = "record" /\ pc'[w] # "record")
                => /\ LedgerEntries(res[w])' = LedgerEntries(res[w]) + 1
                   /\ \/ memory_txt'[res[w]] = memory_txt[res[w]] + 1
                      \/ completed_txt'[res[w]] = completed_txt[res[w]] + 1
                      \/ failures_txt'[res[w]] = failures_txt[res[w]] + 1
    /\ \A n \in res_files :
          LedgerEntries(n)' # LedgerEntries(n)
              => \E w \in AtRecord(n) : pc'[w] # "record"

\* C29 (amended): a worker creates the lock file of a seed, appends the
\* seed to jobs.txt and invokes the Executor, in this order, and when the
\* Executor returns (success, failure or insufficient memory) the seed is
\* appended to exactly one of the three closing ledgers; a seed listed in a
\* closing ledger is in jobs.txt and was run before.
C29_RunOrder ==
    []RunOrder /\ [][RunOrderStep]_vars

\* a seed run once and listed as finished cleanly
C29_Witness ==
    \E n \in res_files :
        /\ completed_txt[n] = 1
        /\ run_count[n] = 1
        /\ InRun(n) = {}
        /\ Line(n) \in JobsNames

\* C29 (as claimed): every run of a seed ends with the seed appended to
\* exactly one of the three closing ledgers, so once no worker is inside a
\* run of the seed its closing entries are as many as its runs.
C29_EveryRunIsClosed ==
    \A n \in res_files :
        InRun(n) = {} => LedgerEntries(n) = run_count[n]

\* a batch with no job limit in which every worker has gone through its
\* list and reported its count: no worker ended on an error
AllFinishedCleanly ==
    /\ limit = NoLimit
    /\ \A w \in Procs : pc[w] = "dead" /\ reported[w] # NoLimit

\* C30: with no job limit, jobs.txt empty and no lock files at the start,
\* and no worker error, when all workers have finished every res file of
\* the folder has been passed to FullRelaxer by some worker and is in
\* jobs.txt.
C30_EveryCandidateRun ==
    AllFinishedCleanly =>
        \A n \in res_files : run_count[n] > 0 /\ Line(n) \in JobsNames


(***************************************************************************)
(* Properties of the counts of the Refiner (Part C).                       *)
(***************************************************************************)
\* one of the three analyses has gone through the batch
RefinerAnalysed ==
    /\ rf.pc \in {"bulk_write", "done"}
    /\ rf.field \in {"space_group", "substruc", "ratios"}

\* C28: after a task over a batch in which any documents fail,
\* changed_count is the length of diff_cursor, no document is counted as
\* changed and as failed, the two counts together do not exceed the batch,
\* and every document of the batch has been gone through.
C28_CountsAgree ==
    RefinerAnalysed =>
        /\ rf.changed_count = Len(rf.diff_cursor)
        /\ rf.changed_docs \cap rf.failed_docs = {}
        /\ rf.changed_count + rf.failed_count <= Len(rf.cursor)
        /\ rf.analysed = Len(rf.cursor)

====
